---------------------------- MODULE Spec2Model ----------------------------
(***************************************************************************)
(* Model of game-platform-core: the bet ledger (BetService over the Bet    *)
(* table) and the wallet gateway (WalletService with its audit log and     *)
(* retry queue).                                                           *)
(*                                                                         *)
(* Every async method is a process: one atomic step per stretch of code    *)
(* between two awaits that touch shared state (the Bet table, the audit    *)
(* log, the retry queue).  Calls run in slots; a slot is used once and     *)
(* keeps the outcome its caller observed.                                  *)
(***************************************************************************)
EXTENDS Integers, FiniteSets, Sequences, TLC

VARIABLES
  bets,                   \* the Bet table: a set of rows
  nextId,                 \* next generated primary key
  now,                    \* the clock (Date.now())
  gameValidationService,  \* the optional validator injected into BetService
  calls,                  \* BetService calls, one per slot
  walletApiAdapter,       \* the optional adapter injected into WalletService
  walletCalls,            \* WalletService calls, one per slot
  walletAudits,           \* the audit log: the records written so far
  retryJobs,              \* the retry queue: the jobs written so far
  writes                  \* the audit and retry writes handed to the services

betVars == <<bets, nextId, now, gameValidationService, calls>>

walletVars == <<walletApiAdapter, walletCalls, walletAudits, retryJobs, writes>>

vars == <<bets, nextId, now, gameValidationService, calls,
          walletApiAdapter, walletCalls, walletAudits, retryJobs, writes>>

-----------------------------------------------------------------------------
(* Bounds *)

MaxCalls == 2
MaxTime == 1

CallIds == 1..MaxCalls
Times == 0..MaxTime

-----------------------------------------------------------------------------
(* Bet entity *)

PLACED == "placed"
PENDING_SETTLEMENT == "pending_settlement"
WON == "won"
LOST == "lost"
CANCELLED == "cancelled"
REFUNDED == "refunded"
SETTLEMENT_FAILED == "settlement_failed"

BetFields ==
  {"id", "externalPlatformTxId", "userId", "roundId", "gameMetadata",
   "betAmount", "winAmount", "currency", "status", "settlementRefTxId",
   "isPremium", "betPlacedAt", "settledAt", "gameCode", "gameInfo",
   "balanceAfterBet", "balanceAfterSettlement", "createdAt", "updatedAt",
   "createdBy", "updatedBy", "operatorId", "finalCoeff", "withdrawCoeff",
   "fairnessData"}

DecimalColumns ==
  {"betAmount", "winAmount", "balanceAfterBet", "balanceAfterSettlement",
   "finalCoeff", "withdrawCoeff"}

\* SQL NULL of a text, json or decimal column, and of a datetime column.
NULL == "NULL"
NoDate == -1

\* The value a column takes when an INSERT supplies none.
ColumnDefault(f) ==
  CASE f = "status" -> PLACED
    [] f = "isPremium" -> FALSE
    [] f \in {"betPlacedAt", "settledAt", "createdAt", "updatedAt"} -> NoDate
    [] OTHER -> NULL

\* The strings the inputs write to decimal columns that are not numbers.
NotDecimal == {"", "abc"}

\* decimal(18,3): what the column holds after a string is written to it: the
\* number rounded to three decimals.  A
\* store that accepts a string that is not a number holds zero for it.
DecimalColumn(v) ==
  CASE v = "0.00" -> "0.000"
    [] v = "5.00" -> "5.000"
    [] v = "9.00" -> "9.000"
    [] v = "1.5" -> "1.500"
    [] v = "-1.00" -> "-1.000"
    [] v = "1.2345" -> "1.235"
    [] v \in NotDecimal -> "0.000"
    [] OTHER -> v

\* The row the table holds for an entity written to it.
Stored(e) ==
  [f \in BetFields |-> IF f \in DecimalColumns THEN DecimalColumn(e[f]) ELSE e[f]]


-----------------------------------------------------------------------------
(* Inputs *)

TxIds == {"T1", "T2"}
\* Number(s) > 0 for the decimal strings above; NaN and 0 are not > 0.
NumberPositive(s) ==
  CASE s \in {"10.500", "10.5", "9.00", "9.000", "5.00", "5.000", "1.5", "1.500"} -> TRUE
    [] OTHER -> FALSE

\* JavaScript truthiness of a string-or-null value.
Truthy(s) == s # NULL /\ s # ""

NoFields == [f \in {} |-> NULL]

SettlementOptional ==
  {"gameMetadata", "settlementRefTxId", "settledAt", "balanceAfterSettlement",
   "gameInfo", "finalCoeff", "withdrawCoeff", "fairnessData", "status",
   "userId", "roundId", "betAmount", "currency", "gameCode", "isPremium",
   "betPlacedAt", "balanceAfterBet", "operatorId"}

UpdateBetOptional ==
  {"userId", "roundId", "gameMetadata", "betAmount", "winAmount", "currency",
   "status", "settlementRefTxId", "isPremium", "betPlacedAt", "settledAt",
   "gameCode", "gameInfo", "balanceAfterBet", "balanceAfterSettlement",
   "operatorId", "finalCoeff", "withdrawCoeff", "fairnessData"}

\* The parameter objects the callers of the model pass: the required fields
\* and at most one optional field.
PlacementOf(tx, gc) ==
  [externalPlatformTxId |-> tx, userId |-> "u1", roundId |-> "r1",
   betAmount |-> "5.00", currency |-> "USD", gameCode |-> gc,
   createdBy |-> "creator", operatorId |-> "op1"]

CreateBetParams ==
  {o @@ PlacementOf(tx, gc) :
     tx \in TxIds, gc \in {"G1", "G2"}, o \in {NoFields}}

SettlementOf(tx, w) ==
  [externalPlatformTxId |-> tx, winAmount |-> w, updatedBy |-> "settler"]

SettlementParams ==
  {SettlementOf(tx, w) : tx \in TxIds, w \in {"0.00", "9.00"}} \cup
  {[status |-> PLACED] @@ SettlementOf(tx, "9.00") : tx \in TxIds}

UpdateBetStatusParams ==
  {[externalPlatformTxId |-> tx, status |-> s, updatedBy |-> "operator"] :
     tx \in TxIds, s \in {PLACED, CANCELLED}}

UpdateBetParams ==
  {o @@ [externalPlatformTxId |-> tx, updatedBy |-> "patcher"] :
     tx \in TxIds, o \in {[status |-> PLACED], [gameCode |-> "G2"]}}

-----------------------------------------------------------------------------
(* The Bet repository *)

\* whereByExternalTx: the gameCode filter is added only for a truthy gameCode.
whereByExternalTx(externalPlatformTxId, gameCode) ==
  IF Truthy(gameCode)
    THEN [externalPlatformTxId |-> externalPlatformTxId, gameCode |-> gameCode]
    ELSE [externalPlatformTxId |-> externalPlatformTxId]

\* repo.findOne({where}): the rows that match; findOne returns one of them or null.
Matching(where) == {b \in bets : \A f \in DOMAIN where : b[f] = where[f]}

\* Mutant: the unique index is over (externalPlatformTxId, gameCode).
UniqueIndexAllows_perGame(table, r) ==
  \A b \in table :
    b.id # r.id =>
      (b.externalPlatformTxId # r.externalPlatformTxId \/ b.gameCode # r.gameCode)

\* Mutant: the table has no unique index.
UniqueIndexAllows_none(table, r) == TRUE

\* @Index({ unique: true }) on externalPlatformTxId: may row r be written
\* next to the rows of table?
UniqueIndexAllows(table, r) ==
  \A b \in table : b.id # r.id => b.externalPlatformTxId # r.externalPlatformTxId

\* repo.create(...) followed by the INSERT of repo.save: omitted columns take
\* their defaults, the key and the two timestamps are generated.
InsertedRow(entity, id, t) ==
  [f \in BetFields |->
     CASE f = "id" -> id
       [] f \in {"createdAt", "updatedAt"} -> t
       [] f \in DOMAIN entity -> entity[f]
       [] OTHER -> ColumnDefault(f)]

\* The entity createPlacement hands to repo.create.
PlacementEntity(params) ==
  [f \in (DOMAIN params \cup {"status", "updatedBy"}) |->
     CASE f = "updatedBy" ->
            IF "updatedBy" \in DOMAIN params THEN params.updatedBy ELSE params.createdBy
       [] f = "status" ->
            IF "status" \in DOMAIN params THEN params.status ELSE PLACED
       [] OTHER -> params[f]]

\* Mutant: the optional fields the caller omits are reset to their defaults.
SettledEntity_nulling(bet, params, t) ==
  LET merged ==
        [f \in BetFields |->
           CASE f = "winAmount" -> params.winAmount
             [] f = "updatedBy" -> params.updatedBy
             [] f = "settledAt" ->
                  IF "settledAt" \in DOMAIN params THEN params.settledAt ELSE t
             [] f \in SettlementOptional \ {"status"} ->
                  IF f \in DOMAIN params THEN params[f] ELSE ColumnDefault(f)
             [] OTHER -> bet[f]]
  IN [merged EXCEPT !.status =
        IF "status" \in DOMAIN params THEN params.status
        ELSE IF Truthy(merged.winAmount) /\ NumberPositive(merged.winAmount) THEN WON
        ELSE LOST]

\* Mutant: a status of the caller that is neither Won nor Lost is ignored.
SettledEntity_terminal(bet, params, t) ==
  LET merged ==
        [f \in BetFields |->
           CASE f = "winAmount" -> params.winAmount
             [] f = "updatedBy" -> params.updatedBy
             [] f = "settledAt" ->
                  IF "settledAt" \in DOMAIN params THEN params.settledAt ELSE t
             [] f \in SettlementOptional \ {"status"} /\ f \in DOMAIN params -> params[f]
             [] OTHER -> bet[f]]
  IN [merged EXCEPT !.status =
        IF "status" \in DOMAIN params /\ params.status \in {WON, LOST} THEN params.status
        ELSE IF Truthy(merged.winAmount) /\ NumberPositive(merged.winAmount) THEN WON
        ELSE LOST]

\* Mutant: every non-empty winAmount settles as Won.
SettledEntity_truthy(bet, params, t) ==
  LET merged ==
        [f \in BetFields |->
           CASE f = "winAmount" -> params.winAmount
             [] f = "updatedBy" -> params.updatedBy
             [] f = "settledAt" ->
                  IF "settledAt" \in DOMAIN params THEN params.settledAt ELSE t
             [] f \in SettlementOptional \ {"status"} /\ f \in DOMAIN params -> params[f]
             [] OTHER -> bet[f]]
  IN [merged EXCEPT !.status =
        IF "status" \in DOMAIN params THEN params.status
        ELSE IF Truthy(merged.winAmount) THEN WON
        ELSE LOST]

\* recordSettlement's mutation of the loaded bet.
SettledEntity(bet, params, t) ==
  LET merged ==
        [f \in BetFields |->
           CASE f = "winAmount" -> params.winAmount
             [] f = "updatedBy" -> params.updatedBy
             [] f = "settledAt" ->
                  IF "settledAt" \in DOMAIN params THEN params.settledAt ELSE t
             [] f \in SettlementOptional \ {"status"} /\ f \in DOMAIN params -> params[f]
             [] OTHER -> bet[f]]
  IN [merged EXCEPT !.status =
        IF "status" \in DOMAIN params THEN params.status
        ELSE IF Truthy(merged.winAmount) /\ NumberPositive(merged.winAmount) THEN WON
        ELSE LOST]

\* Mutant: a status update also clears the win amount.
StatusEntity_clearing(bet, params) ==
  [bet EXCEPT !.status = params.status, !.updatedBy = params.updatedBy,
              !.winAmount = NULL]

\* updateStatus's mutation of the loaded bet.
StatusEntity(bet, params) ==
  [bet EXCEPT !.status = params.status, !.updatedBy = params.updatedBy]

\* Mutant: a patch also makes its caller the creator of the bet.
PatchedEntity_authoring(bet, params) ==
  [f \in BetFields |->
     CASE f \in {"updatedBy", "createdBy"} -> params.updatedBy
       [] f \in UpdateBetOptional /\ f \in DOMAIN params -> params[f]
       [] OTHER -> bet[f]]

\* Mutant: the fields the caller omits are reset to their defaults.
PatchedEntity_nulling(bet, params) ==
  [f \in BetFields |->
     CASE f = "updatedBy" -> params.updatedBy
       [] f \in UpdateBetOptional ->
            IF f \in DOMAIN params THEN params[f] ELSE ColumnDefault(f)
       [] OTHER -> bet[f]]

\* updateBet's mutation of the loaded bet.
PatchedEntity(bet, params) ==
  [f \in BetFields |->
     CASE f = "updatedBy" -> params.updatedBy
       [] f \in UpdateBetOptional /\ f \in DOMAIN params -> params[f]
       [] OTHER -> bet[f]]


\* repo.save of an entity that carries a primary key: UPDATE the row with that
\* key (updatedAt is refreshed when a column differs), INSERT it when the row
\* is gone.  The unique index can reject the INSERT.
SaveAllowed(entity) ==
  (\E b \in bets : b.id = entity.id) \/ UniqueIndexAllows(bets, entity)

SavedEntity(entity, t) ==
  IF \E b \in bets : b.id = entity.id /\
        \A f \in BetFields \ {"updatedAt"} : b[f] = entity[f]
    THEN entity
    ELSE [entity EXCEPT !.updatedAt = t]

TableAfterSave(entity, t) ==
  {b \in bets : b.id # entity.id} \cup {Stored(SavedEntity(entity, t))}

-----------------------------------------------------------------------------
(* BetService calls *)

NoCall ==
  [op |-> "none", params |-> NoFields, pc |-> "idle", read |-> {}, entity |-> {},
   result |-> "none", ret |-> {}, count |-> 0]

\* Slots are taken in order; any number of calls may be in flight at once.
Free(c) == calls[c].pc = "idle" /\ (IF c = 1 THEN TRUE ELSE calls[c - 1].pc # "idle")

Failed(c, op, params, error) ==
  calls' = [calls EXCEPT ![c] =
    [NoCall EXCEPT !.op = op, !.params = params, !.pc = "done", !.result = error]]

Returned(c, op, params, row) ==
  calls' = [calls EXCEPT ![c] =
    [NoCall EXCEPT !.op = op, !.params = params, !.pc = "done", !.result = "ok",
                   !.ret = {row}]]

\* The call holds the row it read (none for a placement) and the entity it
\* is about to save.
Loaded(c, op, params, read, entity) ==
  calls' = [calls EXCEPT ![c] =
    [NoCall EXCEPT !.op = op, !.params = params, !.pc = "save", !.read = read,
                   !.entity = {entity}]]

\* validateGame throws NotFoundException for a game that is unknown or inactive.
validateGame(gameCode) == gameCode \in gameValidationService.games

\* Mutant: createPlacement without the existence check.
createPlacement_find_unchecked(c, params) ==
  /\ Free(c)
  /\ IF gameValidationService.present /\ ~validateGame(params.gameCode)
       THEN Failed(c, "createPlacement", params, "NotFound")
       ELSE Loaded(c, "createPlacement", params, {}, PlacementEntity(params))
  /\ UNCHANGED <<bets, nextId, now, gameValidationService, walletVars>>

\* Mutant: createPlacement checks for the stored placement before it asks
\* the validator.
createPlacement_find_duplicateFirst(c, params) ==
  /\ Free(c)
  /\ IF Matching(whereByExternalTx(params.externalPlatformTxId, params.gameCode)) # {}
       THEN Failed(c, "createPlacement", params, "Conflict")
       ELSE IF gameValidationService.present /\ ~validateGame(params.gameCode)
         THEN Failed(c, "createPlacement", params, "NotFound")
         ELSE Loaded(c, "createPlacement", params, {}, PlacementEntity(params))
  /\ UNCHANGED <<bets, nextId, now, gameValidationService, walletVars>>

\* Mutant: createPlacement never asks the validator.
createPlacement_find_unvalidated(c, params) ==
  /\ Free(c)
  /\ IF Matching(whereByExternalTx(params.externalPlatformTxId, params.gameCode)) # {}
       THEN Failed(c, "createPlacement", params, "Conflict")
       ELSE Loaded(c, "createPlacement", params, {}, PlacementEntity(params))
  /\ UNCHANGED <<bets, nextId, now, gameValidationService, walletVars>>

\* createPlacement up to its repo.save: validation, then the existence check.
createPlacement_find(c, params) ==
  /\ Free(c)
  /\ IF gameValidationService.present /\ ~validateGame(params.gameCode)
       THEN Failed(c, "createPlacement", params, "NotFound")
       ELSE IF Matching(whereByExternalTx(params.externalPlatformTxId, params.gameCode)) # {}
         THEN Failed(c, "createPlacement", params, "Conflict")
         ELSE Loaded(c, "createPlacement", params, {}, PlacementEntity(params))
  /\ UNCHANGED <<bets, nextId, now, gameValidationService, walletVars>>

\* createPlacement's repo.save: an INSERT, which the unique index can reject,
\* and which a strict store rejects for a decimal that is not a number.  It
\* resolves with the entity it was given, completed with the generated key,
\* the timestamps and the defaults.
createPlacement_save(c) ==
  /\ calls[c].op = "createPlacement" /\ calls[c].pc = "save"
  /\ \E entity \in calls[c].entity :
       LET saved == InsertedRow(entity, nextId, now) IN
       \E strict \in (IF \A f \in DecimalColumns : saved[f] \notin NotDecimal
                       THEN {TRUE} ELSE BOOLEAN) :
       IF UniqueIndexAllows(bets, saved)
            /\ (strict => \A f \in DecimalColumns : saved[f] \notin NotDecimal)
         THEN /\ bets' = bets \cup {Stored(saved)}
              /\ nextId' = nextId + 1
              /\ Returned(c, "createPlacement", calls[c].params, saved)
         ELSE /\ Failed(c, "createPlacement", calls[c].params, "QueryFailed")
              /\ UNCHANGED <<bets, nextId>>
  /\ UNCHANGED <<now, gameValidationService, walletVars>>

\* Mutant: recordSettlement without the idempotency check.
recordSettlement_find_unguarded(c, params) ==
  /\ Free(c)
  /\ LET found == Matching(whereByExternalTx(params.externalPlatformTxId, NULL)) IN
     IF found = {}
       THEN Failed(c, "recordSettlement", params, "NotFound")
       ELSE \E bet \in found :
              Loaded(c, "recordSettlement", params, {bet}, SettledEntity(bet, params, now))
  /\ UNCHANGED <<bets, nextId, now, gameValidationService, walletVars>>

\* Mutant: the idempotency check covers Won only.
recordSettlement_find_wonOnly(c, params) ==
  /\ Free(c)
  /\ LET found == Matching(whereByExternalTx(params.externalPlatformTxId, NULL)) IN
     IF found = {}
       THEN Failed(c, "recordSettlement", params, "NotFound")
       ELSE \E bet \in found :
              IF bet.status = WON
                THEN Returned(c, "recordSettlement", params, bet)
                ELSE Loaded(c, "recordSettlement", params, {bet},
                            SettledEntity(bet, params, now))
  /\ UNCHANGED <<bets, nextId, now, gameValidationService, walletVars>>

\* Mutant: the idempotency check also covers Cancelled and Refunded.
recordSettlement_find_closed(c, params) ==
  /\ Free(c)
  /\ LET found == Matching(whereByExternalTx(params.externalPlatformTxId, NULL)) IN
     IF found = {}
       THEN Failed(c, "recordSettlement", params, "NotFound")
       ELSE \E bet \in found :
              IF bet.status \in {WON, LOST, CANCELLED, REFUNDED}
                THEN Returned(c, "recordSettlement", params, bet)
                ELSE Loaded(c, "recordSettlement", params, {bet},
                            SettledEntity(bet, params, now))
  /\ UNCHANGED <<bets, nextId, now, gameValidationService, walletVars>>

\* Mutant: a settlement of an unknown bet creates the bet.
recordSettlement_find_upsert(c, params) ==
  /\ Free(c)
  /\ LET found == Matching(whereByExternalTx(params.externalPlatformTxId, NULL)) IN
     IF found = {}
       THEN Loaded(c, "recordSettlement", params, {},
                   SettledEntity(InsertedRow(params, nextId, now), params, now))
       ELSE \E bet \in found :
              IF bet.status = WON \/ bet.status = LOST
                THEN Returned(c, "recordSettlement", params, bet)
                ELSE Loaded(c, "recordSettlement", params, {bet},
                            SettledEntity(bet, params, now))
  /\ UNCHANGED <<bets, nextId, now, gameValidationService, walletVars>>

\* recordSettlement up to its repo.save.
recordSettlement_find(c, params) ==
  /\ Free(c)
  /\ LET found == Matching(whereByExternalTx(params.externalPlatformTxId, NULL)) IN
     IF found = {}
       THEN Failed(c, "recordSettlement", params, "NotFound")
       ELSE \E bet \in found :
              IF bet.status = WON \/ bet.status = LOST
                THEN Returned(c, "recordSettlement", params, bet)
                ELSE Loaded(c, "recordSettlement", params, {bet},
                            SettledEntity(bet, params, now))
  /\ UNCHANGED <<bets, nextId, now, gameValidationService, walletVars>>

\* updateStatus up to its repo.save; op names the public method that was called.
updateStatus_find(c, op, params) ==
  /\ Free(c)
  /\ LET found == Matching(whereByExternalTx(params.externalPlatformTxId, NULL)) IN
     IF found = {}
       THEN Failed(c, op, params, "NotFound")
       ELSE \E bet \in found : Loaded(c, op, params, {bet}, StatusEntity(bet, params))
  /\ UNCHANGED <<bets, nextId, now, gameValidationService, walletVars>>

markPendingSettlement_find(c, externalPlatformTxId, updatedBy) ==
  updateStatus_find(c, "markPendingSettlement",
    [externalPlatformTxId |-> externalPlatformTxId, status |-> PENDING_SETTLEMENT,
     updatedBy |-> updatedBy])

markSettlementFailed_find(c, externalPlatformTxId, updatedBy) ==
  updateStatus_find(c, "markSettlementFailed",
    [externalPlatformTxId |-> externalPlatformTxId, status |-> SETTLEMENT_FAILED,
     updatedBy |-> updatedBy])

\* updateBet up to its repo.save.
updateBet_find(c, params) ==
  /\ Free(c)
  /\ LET found == Matching(whereByExternalTx(params.externalPlatformTxId, NULL)) IN
     IF found = {}
       THEN Failed(c, "updateBet", params, "NotFound")
       ELSE \E bet \in found : Loaded(c, "updateBet", params, {bet}, PatchedEntity(bet, params))
  /\ UNCHANGED <<bets, nextId, now, gameValidationService, walletVars>>

UpdatingOps ==
  {"recordSettlement", "updateStatus", "markPendingSettlement",
   "markSettlementFailed", "updateBet"}

\* Mutant: the save is refused when the stored row is no longer the row read.
update_save_versioned(c) ==
  /\ calls[c].op \in UpdatingOps /\ calls[c].pc = "save"
  /\ \E entity \in calls[c].entity :
       IF SaveAllowed(entity) /\ calls[c].read \subseteq bets
            /\ \A f \in DecimalColumns : entity[f] \notin NotDecimal
         THEN /\ bets' = TableAfterSave(entity, now)
              /\ Returned(c, calls[c].op, calls[c].params, SavedEntity(entity, now))
         ELSE /\ Failed(c, calls[c].op, calls[c].params, "QueryFailed")
              /\ UNCHANGED bets
  /\ UNCHANGED <<nextId, now, gameValidationService, walletVars>>

\* The repo.save that ends recordSettlement, updateStatus and updateBet.  A
\* strict store refuses a decimal column that is not a number, a lenient one
\* stores zero.
update_save(c) ==
  /\ calls[c].op \in UpdatingOps /\ calls[c].pc = "save"
  /\ \E entity \in calls[c].entity :
     \E strict \in (IF \A f \in DecimalColumns : entity[f] \notin NotDecimal
                     THEN {TRUE} ELSE BOOLEAN) :
       IF SaveAllowed(entity)
            /\ (strict => \A f \in DecimalColumns : entity[f] \notin NotDecimal)
         THEN /\ bets' = TableAfterSave(entity, now)
              /\ Returned(c, calls[c].op, calls[c].params, SavedEntity(entity, now))
         ELSE /\ Failed(c, calls[c].op, calls[c].params, "QueryFailed")
              /\ UNCHANGED bets
  /\ UNCHANGED <<nextId, now, gameValidationService, walletVars>>

\* Mutant: the purge of Placed bets also purges the audit records.
deletePlacedBets_withAudits(c) ==
  /\ Free(c)
  /\ LET doomed == {b \in bets : b.status = PLACED} IN
     /\ bets' = bets \ doomed
     /\ calls' = [calls EXCEPT ![c] =
          [NoCall EXCEPT !.op = "deletePlacedBets", !.pc = "done", !.result = "ok",
                         !.count = Cardinality(doomed)]]
  /\ walletAudits' = {}
  /\ UNCHANGED <<nextId, now, gameValidationService, walletApiAdapter,
                 walletCalls, retryJobs, writes>>

\* deletePlacedBets: one DELETE statement; returns the affected count.
deletePlacedBets(c) ==
  /\ Free(c)
  /\ LET doomed == {b \in bets : b.status = PLACED} IN
     /\ bets' = bets \ doomed
     /\ calls' = [calls EXCEPT ![c] =
          [NoCall EXCEPT !.op = "deletePlacedBets", !.pc = "done", !.result = "ok",
                         !.count = Cardinality(doomed)]]
  /\ UNCHANGED <<nextId, now, gameValidationService, walletVars>>

\* Mutant: the purge by date spares the bets that are no longer Placed.
deleteBetsBeforeDate_placedOnly(c, beforeDate) ==
  /\ Free(c)
  /\ LET doomed == {b \in bets : b.status = PLACED /\ b.createdAt < beforeDate} IN
     /\ bets' = bets \ doomed
     /\ calls' = [calls EXCEPT ![c] =
          [NoCall EXCEPT !.op = "deleteBetsBeforeDate", !.pc = "done", !.result = "ok",
                         !.params = [beforeDate |-> beforeDate],
                         !.count = Cardinality(doomed)]]
  /\ UNCHANGED <<nextId, now, gameValidationService, walletVars>>

\* deleteBetsBeforeDate: one DELETE statement; returns the affected count.
deleteBetsBeforeDate(c, beforeDate) ==
  /\ Free(c)
  /\ LET doomed == {b \in bets : b.createdAt < beforeDate} IN
     /\ bets' = bets \ doomed
     /\ calls' = [calls EXCEPT ![c] =
          [NoCall EXCEPT !.op = "deleteBetsBeforeDate", !.pc = "done", !.result = "ok",
                         !.params = [beforeDate |-> beforeDate],
                         !.count = Cardinality(doomed)]]
  /\ UNCHANGED <<nextId, now, gameValidationService, walletVars>>

\* Mutant: the age of a bet is taken from createdAt alone.
OldPlacedBets_byCreation(threshold) ==
  {b \in bets : b.status = PLACED /\ b.createdAt < threshold}

\* The rows findOldPlacedBets selects: status = PLACED AND (betPlacedAt <
\* threshold OR (betPlacedAt IS NULL AND createdAt < threshold)); a null
\* betPlacedAt is less than nothing.
OldPlacedBets(threshold) ==
  {b \in bets :
     /\ b.status = PLACED
     /\ \/ b.betPlacedAt # NoDate /\ b.betPlacedAt < threshold
        \/ b.betPlacedAt = NoDate /\ b.createdAt < threshold}

\* findOldPlacedBets: one SELECT with threshold = now - olderThanMs.
findOldPlacedBets(c, olderThanMs) ==
  /\ Free(c)
  /\ calls' = [calls EXCEPT ![c] =
       [NoCall EXCEPT !.op = "findOldPlacedBets", !.pc = "done", !.result = "ok",
                      !.params = [olderThanMs |-> olderThanMs],
                      !.ret = OldPlacedBets(now - olderThanMs)]]
  /\ UNCHANGED <<bets, nextId, now, gameValidationService, walletVars>>

\* Time passes (nothing reads the clock once every call has returned).
Tick ==
  /\ now < MaxTime
  /\ \E c \in CallIds : calls[c].pc # "done"
  /\ now' = now + 1
  /\ UNCHANGED <<bets, nextId, gameValidationService, calls, walletVars>>

-----------------------------------------------------------------------------
(* The wallet gateway: its collaborators and the values it exchanges *)

MaxWalletCalls == 1
MaxBatch == 2

WalletCallIds == 1..MaxWalletCalls

\* WalletApiAction, WalletAuditStatus and WalletErrorType.
GET_BALANCE == "GetBalance"
PLACE_BET == "PlaceBet"
SETTLE_BET == "SettleBet"
REFUND_BET == "RefundBet"

SUCCESS == "Success"
FAILURE == "Failure"

AGENT_REJECTED == "AgentRejected"
NETWORK_ERROR == "NetworkError"
TIMEOUT_ERROR == "TimeoutError"
HTTP_ERROR == "HttpError"
UNKNOWN_ERROR == "UnknownError"

\* A property read o.f of a JavaScript object: undefined when o has no f.
Field(o, f) == IF f \in DOMAIN o THEN o[f] ELSE NULL

\* The agent directory: agent A1 is registered, agent A9 is not.
AgentIds == {"A1", "A9"}

Agents ==
  [a \in {"A1"} |-> [agentId |-> a, callbackURL |-> "https://agent/cb", cert |-> "cert"]]

\* An undefined httpStatus.
NoStatus == 0

\* An error as the catch blocks read it: err.response (with its status and
\* data), err.code, err.name and err.message.  A NestJS HttpException keeps
\* its body in a response property, which has neither a status nor a data.
HttpException(name, message) ==
  [name |-> name, message |-> message, response |-> TRUE, code |-> NULL,
     status |-> NoStatus, data |-> NULL]

NotFoundException(message) == HttpException("NotFoundException", message)

InternalServerErrorException(message) ==
  HttpException("InternalServerErrorException", message)

\* What firstValueFrom(http.post(...)) rejects with: a refused connection, a
\* failed name lookup, a socket timeout, an rxjs timeout, a response with an
\* error status, anything else.
ConnectionRefused ==
  [name |-> "AxiosError", message |-> "connect ECONNREFUSED", response |-> FALSE, code |-> "ECONNREFUSED",
     status |-> NoStatus, data |-> NULL]

TransportErrors ==
  { ConnectionRefused,
    [name |-> "AxiosError", message |-> "getaddrinfo ENOTFOUND", response |-> FALSE, code |-> "ENOTFOUND",
     status |-> NoStatus, data |-> NULL],
    [name |-> "AxiosError", message |-> "connect ETIMEDOUT", response |-> FALSE, code |-> "ETIMEDOUT",
     status |-> NoStatus, data |-> NULL],
    [name |-> "TimeoutError", message |-> "Timeout has occurred", response |-> FALSE, code |-> NULL,
     status |-> NoStatus, data |-> NULL],
    [name |-> "AxiosError", message |-> "Request failed with status code 500", response |-> TRUE, code |-> "ERR_BAD_RESPONSE",
     status |-> 500, data |-> "Internal Server Error"],
    [name |-> "Error", message |-> "socket hang up", response |-> FALSE, code |-> "ECONNRESET",
     status |-> NoStatus, data |-> NULL] }

\* What the audit service or the retry service throws or rejects with.
WriteError == [name |-> "Error", message |-> "write failed", response |-> FALSE, code |-> NULL,
     status |-> NoStatus, data |-> NULL]

\* resp.data with status '0000'.
Accepted == {[status |-> "0000", balance |-> 100]}

\* What the post settles with.  resp.data of an answered post: null, an
\* object without a status, an object whose status is not a string (null), an
\* object with status '0000', an object with another status.
Replies ==
  {[resolved |-> TRUE, data |-> d] :
     d \in {{}, {[balance |-> 100]}, {[status |-> NULL, balance |-> 100]},
            Accepted, {[status |-> "9999", balance |-> 100]}}}
    \cup {[resolved |-> FALSE, error |-> e] : e \in TransportErrors}

\* getGamePayloads(gameCode): the adapter answers or throws.
Fetches == {"payload", "throws"}

GamePayloadsOf(gameCode) ==
  [gameCode |-> gameCode, gameName |-> "Dice", gameType |-> "TABLE",
   platform |-> "P1", settleType |-> "platformTxId"]

\* let gamePayloads = { gameCode }; if (adapter) try { gamePayloads = await
\* adapter.getGamePayloads(gameCode) } catch { keep the minimal payload }
Enriched(gameCode, fetch) ==
  IF walletApiAdapter.present /\ fetch = "payload"
  THEN GamePayloadsOf(gameCode)
  ELSE [gameCode |-> gameCode]

\* gamePayloads.currency || 'USD'
CurrencyOf(gamePayloads) ==
  IF Truthy(Field(gamePayloads, "currency")) THEN gamePayloads.currency ELSE "USD"

RECURSIVE Total(_, _)
\* refundTransactions.reduce((sum, txn) => sum + txn[f], 0)
Total(txns, f) ==
  IF txns = <<>> THEN 0 ELSE Head(txns)[f] + Total(Tail(txns), f)

\* Mutant: an agent the directory does not know is resolved to agent A1.
resolveAgent_lenient(agentId) ==
  [found |-> TRUE,
   agent |-> IF agentId \in DOMAIN Agents THEN Agents[agentId] ELSE Agents["A1"]]

resolveAgent(agentId) ==
  IF agentId \in DOMAIN Agents
  THEN [found |-> TRUE, agent |-> Agents[agentId]]
  ELSE [found |-> FALSE, error |-> NotFoundException("Agent not found")]

mapAgentResponse(data) ==
  IF data = {} \/ (\E d \in data : "status" \notin DOMAIN d \/ d.status = NULL)
  THEN [mapped |-> FALSE, error |-> InternalServerErrorException("Malformed agent response")]
  ELSE LET d == CHOOSE d \in data : TRUE
       IN [mapped |-> TRUE,
           value |-> [balance |-> IF "balance" \in DOMAIN d THEN d.balance ELSE 0,
                      status |-> d.status, raw |-> d]]

\* Mutant: the error code is looked at before the response.
ErrorTypeOf_codeFirst(err) ==
  IF err.code = "ECONNREFUSED" \/ err.code = "ENOTFOUND" THEN NETWORK_ERROR
  ELSE IF err.code = "ETIMEDOUT" \/ err.name = "TimeoutError" THEN TIMEOUT_ERROR
  ELSE IF err.code # NULL THEN UNKNOWN_ERROR
  ELSE IF err.response THEN HTTP_ERROR
  ELSE UNKNOWN_ERROR

\* The classification every catch block applies to the error it caught.
ErrorTypeOf(err) ==
  IF err.response THEN HTTP_ERROR
  ELSE IF err.code = "ECONNREFUSED" \/ err.code = "ENOTFOUND" THEN NETWORK_ERROR
  ELSE IF err.code = "ETIMEDOUT" \/ err.name = "TimeoutError" THEN TIMEOUT_ERROR
  ELSE UNKNOWN_ERROR

-----------------------------------------------------------------------------
(* The wallet gateway: calls and background writes *)

\* A call slot: the operation and its arguments, the request it posted, the
\* game payloads it built the request from, the reply it got, and what its
\* caller observed (an error thrown or a response returned).
NoWalletCall ==
  [op |-> "none", params |-> NoFields, pc |-> "idle", messageObj |-> {},
   gamePayloads |-> {}, reply |-> {}, thrown |-> {}, returned |-> {}]

WalletFree(c) ==
  walletCalls[c].pc = "idle"
    /\ (IF c = 1 THEN TRUE ELSE walletCalls[c - 1].pc # "idle")

\* The call after it posted its request (requestId is the slot).
Posted(op, params, messageObj, gamePayloads) ==
  [op |-> op, params |-> params, pc |-> "sent", messageObj |-> {messageObj},
   gamePayloads |-> {gamePayloads}, reply |-> {}, thrown |-> {}, returned |-> {}]

\* The call after it settled its promise.
Settled(call, reply, thrown, returned) ==
  [call EXCEPT !.pc = "done", !.reply = reply, !.thrown = thrown,
               !.returned = returned]

StartFates == {"starts", "throws"}

\* A write handed to the audit service: the n-th of call c.  It is running
\* ("started") unless the service threw instead of returning a promise
\* ("thrown"); then holds what the .then() callback enqueues.
AuditWrite(c, n, params, then, fate) ==
  [call |-> c, n |-> n, kind |-> "audit", params |-> params, then |-> then,
   state |-> IF fate = "throws" THEN "thrown" ELSE "started"]

\* this.logAudit(params): the write is started and its synchronous throw and
\* its rejection are logged, nothing reaches the caller.
logAudit(c, n, params, fate) == {AuditWrite(c, n, params, {}, fate)}

\* this.createRetryJobSafely(params): likewise for the retry service.
createRetryJobSafely(c, n, params, fate) ==
  {[call |-> c, n |-> n, kind |-> "retry", params |-> params, then |-> {},
    state |-> IF fate = "throws" THEN "thrown" ELSE "started"]}

\* The fields every audit record of a call carries.
AuditOf(c, call, apiAction) ==
  [requestId |-> c, agentId |-> call.params.agentId,
   userId |-> call.params.userId, apiAction |-> apiAction,
   requestPayload |-> call.messageObj]

FailureOf(failureType, errorMessage) ==
  [status |-> FAILURE, failureType |-> failureType, errorMessage |-> errorMessage]

\* What a catch block audits of the error it caught: httpStatus and
\* responseData are taken from err.response when there is one.
CaughtFailure(err) ==
  [httpStatus |-> IF err.response THEN err.status ELSE NoStatus,
   responseData |-> IF err.response THEN err.data ELSE NULL]
    @@ FailureOf(ErrorTypeOf(err), err.message)

\* What a try block or a catch block leaves: the error it throws, the value
\* it returns, the writes it started.
Outcome(thrown, returned, started) ==
  [thrown |-> thrown, returned |-> returned, started |-> started]

\* The error a try block threw, as its catch block receives it.
Caught(body) == CHOOSE err \in body.thrown : TRUE

\* try { body } catch (err) { handler }: handled is what the catch block
\* leaves for the error Caught(body).
TryCatch(body, handled) ==
  IF body.thrown = {} THEN body
  ELSE Outcome(handled.thrown, handled.returned, body.started \cup handled.started)

\* Mutant: the success path writes no audit record.
Answered_unaudited(reply, rejected, audited) ==
  IF ~reply.resolved THEN Outcome({reply.error}, {}, {})
  ELSE LET mappedResponse == mapAgentResponse(reply.data)
       IN IF ~mappedResponse.mapped THEN Outcome({mappedResponse.error}, {}, {})
          ELSE IF mappedResponse.value.status # "0000" THEN rejected
          ELSE Outcome({}, {mappedResponse.value}, {})

\* The await of the post and the mapping of its response, then the branch on
\* the mapped status: rejected is what the rejection branch leaves, audited
\* the audit write of the success path.
Answered(reply, rejected, audited) ==
  IF ~reply.resolved THEN Outcome({reply.error}, {}, {})
  ELSE LET mappedResponse == mapAgentResponse(reply.data)
       IN IF ~mappedResponse.mapped THEN Outcome({mappedResponse.error}, {}, {})
          ELSE IF mappedResponse.value.status # "0000" THEN rejected
          ELSE Outcome({}, {mappedResponse.value}, audited)

\* Mutant: a call that started a write awaits it before it settles.
Receive_awaiting(c, op, reply, outcome) ==
  /\ walletCalls[c].pc = "sent"
  /\ walletCalls[c].op = op
  /\ walletCalls' = [walletCalls EXCEPT
       ![c] = IF outcome.started = {}
              THEN Settled(@, {reply}, outcome.thrown, outcome.returned)
              ELSE [@ EXCEPT !.pc = "awaiting", !.reply = {reply}]]
  /\ writes' = writes \cup outcome.started
  /\ UNCHANGED <<betVars, walletApiAdapter, walletAudits, retryJobs>>

\* The step in which call c gets its reply and settles.
Receive(c, op, reply, outcome) ==
  /\ walletCalls[c].pc = "sent"
  /\ walletCalls[c].op = op
  /\ walletCalls' = [walletCalls EXCEPT
       ![c] = Settled(@, {reply}, outcome.thrown, outcome.returned)]
  /\ writes' = writes \cup outcome.started
  /\ UNCHANGED <<betVars, walletApiAdapter, walletAudits, retryJobs>>

-----------------------------------------------------------------------------
(* WalletService.getBalance *)

getBalance_send(c, agentId, userId) ==
  /\ WalletFree(c)
  /\ LET params == [agentId |-> agentId, userId |-> userId]
         agent == resolveAgent(agentId)
         messageObj == [action |-> "getBalance", userId |-> userId]
     IN walletCalls' = [walletCalls EXCEPT ![c] =
          IF agent.found
          THEN Posted(GET_BALANCE, params, messageObj, NoFields)
          ELSE Settled([NoWalletCall EXCEPT !.op = GET_BALANCE, !.params = params],
                       {}, {agent.error}, {})]
  /\ UNCHANGED <<betVars, walletApiAdapter, walletAudits, retryJobs, writes>>

getBalance_try(c, call, reply, a1) ==
  LET rejected ==
        Outcome({InternalServerErrorException("Agent rejected getBalance")}, {},
                logAudit(c, 1, FailureOf(AGENT_REJECTED, "Agent rejected getBalance")
                                 @@ AuditOf(c, call, GET_BALANCE), a1))
      audited ==
        logAudit(c, 1, [status |-> SUCCESS] @@ AuditOf(c, call, GET_BALANCE), a1)
  IN Answered(reply, rejected, audited)

getBalance_catch(c, call, err, a2) ==
  Outcome({err}, {},
          logAudit(c, 2, CaughtFailure(err)
                           @@ AuditOf(c, call, GET_BALANCE), a2))

getBalance_receive(c, reply, a1, a2) ==
  LET call == walletCalls[c]
      body == getBalance_try(c, call, reply, a1)
      handled == getBalance_catch(c, call, Caught(body), a2)
  IN Receive(c, GET_BALANCE, reply, TryCatch(body, handled))

-----------------------------------------------------------------------------
(* WalletService.placeBet *)

PlaceBetParams ==
  {[agentId |-> a, userId |-> "u1", amount |-> 5, roundId |-> "R1",
    platformTxId |-> "T1", gameCode |-> "G1"] : a \in AgentIds}

\* params.currency || 'USD'
placeBet_currency(params) ==
  IF Truthy(Field(params, "currency")) THEN params.currency ELSE "USD"

placeBet_txn(params, gamePayloads) ==
  [betType |-> NULL, betAmount |-> params.amount, roundId |-> params.roundId,
   isPremium |-> FALSE]
    @@ gamePayloads
    @@ [platformTxId |-> params.platformTxId, userId |-> params.userId,
        currency |-> placeBet_currency(params)]

placeBet_audit(c, call) ==
  [platformTxId |-> call.params.platformTxId, roundId |-> call.params.roundId,
   betAmount |-> call.params.amount, currency |-> placeBet_currency(call.params)]
    @@ AuditOf(c, call, PLACE_BET)

placeBet_try(c, call, reply, a1) ==
  LET rejected ==
        Outcome({InternalServerErrorException("Agent rejected bet")}, {},
                logAudit(c, 1, FailureOf(AGENT_REJECTED, "Agent rejected bet")
                                 @@ placeBet_audit(c, call), a1))
      audited ==
        logAudit(c, 1, [status |-> SUCCESS] @@ placeBet_audit(c, call), a1)
  IN Answered(reply, rejected, audited)

\* (mutant) the catch block chains a retry job to its audit write, as
\* settleBet does.
placeBet_catch_retrying(c, call, err, a2) ==
  Outcome({err}, {},
          {AuditWrite(c, 2,
             CaughtFailure(err) @@ placeBet_audit(c, call),
             {[platformTxId |-> call.params.platformTxId, apiAction |-> PLACE_BET,
               agentId |-> call.params.agentId, userId |-> call.params.userId,
               requestPayload |-> [messageObj |-> call.messageObj],
               roundId |-> call.params.roundId,
               betAmount |-> call.params.amount, errorMessage |-> err.message]},
             a2)})

placeBet_catch(c, call, err, a2) ==
  Outcome({err}, {},
          logAudit(c, 2, CaughtFailure(err)
                           @@ placeBet_audit(c, call), a2))

\* Mutant: the agent is resolved before the try block, as in the other
\* operations.
placeBet_send_resolvingFirst(c, params, fetch, a2) ==
  /\ WalletFree(c)
  /\ LET agent == resolveAgent(params.agentId)
         gamePayloads == Enriched(params.gameCode, fetch)
         messageObj == [action |-> "bet", txns |-> <<placeBet_txn(params, gamePayloads)>>]
         call == [NoWalletCall EXCEPT !.op = PLACE_BET, !.params = params]
     IN walletCalls' = [walletCalls EXCEPT ![c] =
          IF agent.found THEN Posted(PLACE_BET, params, messageObj, gamePayloads)
          ELSE Settled(call, {}, {agent.error}, {})]
  /\ UNCHANGED <<betVars, walletApiAdapter, walletAudits, retryJobs, writes>>

\* From the call to the post: the agent is resolved inside the try block, so
\* an unknown agent is audited by the catch block.
placeBet_send(c, params, fetch, a2) ==
  /\ WalletFree(c)
  /\ LET agent == resolveAgent(params.agentId)
         gamePayloads == Enriched(params.gameCode, fetch)
         messageObj == [action |-> "bet", txns |-> <<placeBet_txn(params, gamePayloads)>>]
         call == [NoWalletCall EXCEPT !.op = PLACE_BET, !.params = params]
         failed == placeBet_catch(c, call, agent.error, a2)
     IN IF agent.found
        THEN /\ walletCalls' = [walletCalls EXCEPT
                  ![c] = Posted(PLACE_BET, params, messageObj, gamePayloads)]
             /\ UNCHANGED writes
        ELSE /\ walletCalls' = [walletCalls EXCEPT
                  ![c] = Settled(call, {}, failed.thrown, {})]
             /\ writes' = writes \cup failed.started
  /\ UNCHANGED <<betVars, walletApiAdapter, walletAudits, retryJobs>>

placeBet_receive(c, reply, a1, a2) ==
  LET call == walletCalls[c]
      body == placeBet_try(c, call, reply, a1)
      handled == placeBet_catch(c, call, Caught(body), a2)
  IN Receive(c, PLACE_BET, reply, TryCatch(body, handled))

-----------------------------------------------------------------------------
(* WalletService.settleBet *)

SettleBetParams ==
  {[agentId |-> a, userId |-> "u1", platformTxId |-> "T1", winAmount |-> 9,
    betAmount |-> 5, roundId |-> "R1", gameCode |-> "G1"] : a \in AgentIds}

settleBet_txn(params, gamePayloads) ==
  [refPlatformTxId |-> NULL, settleType |-> Field(gamePayloads, "settleType"),
   gameType |-> Field(gamePayloads, "gameType"), gameCode |-> gamePayloads.gameCode,
   gameName |-> Field(gamePayloads, "gameName"), betType |-> NULL,
   betAmount |-> params.betAmount, winAmount |-> params.winAmount,
   roundId |-> params.roundId]
    @@ (IF Truthy(Field(params, "gameSession"))
        THEN [gameInfo |-> params.gameSession] ELSE NoFields)
    @@ gamePayloads
    @@ [platformTxId |-> params.platformTxId, userId |-> params.userId]

settleBet_audit(c, call, gamePayloads) ==
  [platformTxId |-> call.params.platformTxId, roundId |-> call.params.roundId,
   betAmount |-> call.params.betAmount, winAmount |-> call.params.winAmount,
   currency |-> CurrencyOf(gamePayloads)] @@ AuditOf(c, call, SETTLE_BET)

\* What the .then() callback hands to createRetryJobSafely, but for the id of
\* the audit record.
settleBet_retry(call, gamePayloads, errorMessage) ==
  [platformTxId |-> call.params.platformTxId, apiAction |-> SETTLE_BET,
   agentId |-> call.params.agentId, userId |-> call.params.userId,
   requestPayload |-> [messageObj |-> CHOOSE m \in call.messageObj : TRUE],
   roundId |-> call.params.roundId,
   betAmount |-> call.params.betAmount, winAmount |-> call.params.winAmount,
   currency |-> CurrencyOf(gamePayloads), gamePayloads |-> gamePayloads,
   errorMessage |-> errorMessage]

\* The rejection branch and the catch block call the audit service itself:
\* its promise is chained, its synchronous throw is an exception of the block.
settleBet_try(c, call, reply, a1) ==
  LET gamePayloads == CHOOSE g \in call.gamePayloads : TRUE
      rejected ==
        Outcome({IF a1 = "throws" THEN WriteError
                 ELSE InternalServerErrorException("Agent rejected settlement")}, {},
                {AuditWrite(c, 1,
                   FailureOf(AGENT_REJECTED, "Agent rejected settlement")
                     @@ settleBet_audit(c, call, gamePayloads),
                   {settleBet_retry(call, gamePayloads, "Agent rejected settlement")},
                   a1)})
      audited ==
        logAudit(c, 1, [status |-> SUCCESS]
                                 @@ settleBet_audit(c, call, gamePayloads), a1)
  IN Answered(reply, rejected, audited)

\* The catch block fetches the game payloads again before it audits.
settleBet_catch(c, call, err, fetch, a2) ==
  LET gamePayloads == Enriched(call.params.gameCode, fetch)
  IN Outcome({IF a2 = "throws" THEN WriteError ELSE err}, {},
             {AuditWrite(c, 2,
                CaughtFailure(err)
                  @@ settleBet_audit(c, call, gamePayloads),
                {settleBet_retry(call, gamePayloads, err.message)},
                a2)})

settleBet_send(c, params, fetch) ==
  /\ WalletFree(c)
  /\ LET agent == resolveAgent(params.agentId)
         gamePayloads == Enriched(params.gameCode, fetch)
         messageObj == [action |-> "settle", txns |-> <<settleBet_txn(params, gamePayloads)>>]
     IN walletCalls' = [walletCalls EXCEPT ![c] =
          IF agent.found
          THEN Posted(SETTLE_BET, params, messageObj, gamePayloads)
          ELSE Settled([NoWalletCall EXCEPT !.op = SETTLE_BET, !.params = params],
                       {}, {agent.error}, {})]
  /\ UNCHANGED <<betVars, walletApiAdapter, walletAudits, retryJobs, writes>>

settleBet_receive(c, reply, fetch, a1, a2) ==
  LET call == walletCalls[c]
      body == settleBet_try(c, call, reply, a1)
      handled == settleBet_catch(c, call, Caught(body), fetch, a2)
  IN Receive(c, SETTLE_BET, reply, TryCatch(body, handled))

-----------------------------------------------------------------------------
(* WalletService.refundBet *)

\* The i-th transaction of a batch: its own ids, round and amounts.
RefundTransaction(i) ==
  [platformTxId |-> <<"T1", "T2", "T3", "T4">>[i],
   refundPlatformTxId |-> <<"F1", "F2", "F3", "F4">>[i],
   betAmount |-> 4 + i, winAmount |-> i - 1,
   roundId |-> <<"R1", "R2", "R3", "R4">>[i],
   gameCode |-> "G1"]

RefundBetParams ==
  {[agentId |-> a, userId |-> "u1",
    refundTransactions |-> [i \in 1..n |-> RefundTransaction(i)]] :
     a \in AgentIds, n \in 0..MaxBatch}

\* params.refundTransactions[0], which an empty batch does not have.
FirstTransaction(params) ==
  IF params.refundTransactions = <<>> THEN {} ELSE {Head(params.refundTransactions)}

\* firstTransaction?.f
OfFirst(params, f) ==
  IF FirstTransaction(params) = {} THEN NULL ELSE Head(params.refundTransactions)[f]

\* The adapter is asked only when the batch names a game code.
refundBet_gamePayloads(params, fetch) ==
  IF Truthy(OfFirst(params, "gameCode"))
  THEN Enriched(OfFirst(params, "gameCode"), fetch)
  ELSE [gameCode |-> ""]

refundBet_txn(params, refundTxn, gamePayloads) ==
  [platformTxId |-> refundTxn.platformTxId, userId |-> params.userId,
   platform |-> Field(gamePayloads, "platform"),
   gameType |-> Field(gamePayloads, "gameType"), gameCode |-> gamePayloads.gameCode,
   gameName |-> Field(gamePayloads, "gameName"), betType |-> NULL,
   betAmount |-> refundTxn.betAmount, winAmount |-> refundTxn.winAmount,
   turnover |-> IF "turnover" \in DOMAIN refundTxn THEN refundTxn.turnover ELSE 0,
   roundId |-> refundTxn.roundId, refundPlatformTxId |-> refundTxn.refundPlatformTxId]

refundBet_audit(c, call, gamePayloads) ==
  [platformTxId |-> OfFirst(call.params, "platformTxId"),
   roundId |-> OfFirst(call.params, "roundId"),
   betAmount |-> Total(call.params.refundTransactions, "betAmount"),
   winAmount |-> Total(call.params.refundTransactions, "winAmount"),
   currency |-> CurrencyOf(gamePayloads)] @@ AuditOf(c, call, REFUND_BET)

\* Mutant: the retry job is created whether or not the batch has a first
\* transaction.
refundBet_retry_always(call, gamePayloads, errorMessage) ==
  {[platformTxId |-> OfFirst(call.params, "platformTxId"), apiAction |-> REFUND_BET,
    agentId |-> call.params.agentId, userId |-> call.params.userId,
    requestPayload |-> [messageObj |-> CHOOSE m \in call.messageObj : TRUE,
                        refundTransactions |-> call.params.refundTransactions],
    roundId |-> OfFirst(call.params, "roundId"),
    betAmount |-> Total(call.params.refundTransactions, "betAmount"),
    winAmount |-> Total(call.params.refundTransactions, "winAmount"),
    currency |-> CurrencyOf(gamePayloads), gamePayloads |-> gamePayloads,
    errorMessage |-> errorMessage]}

\* Mutant: the retry job is seeded from the first transaction alone, amounts
\* and snapshot included.
refundBet_retry_firstOnly(call, gamePayloads, errorMessage) ==
  {[platformTxId |-> first.platformTxId, apiAction |-> REFUND_BET,
    agentId |-> call.params.agentId, userId |-> call.params.userId,
    requestPayload |-> [messageObj |-> CHOOSE m \in call.messageObj : TRUE,
                        refundTransactions |-> <<first>>],
    roundId |-> first.roundId,
    betAmount |-> first.betAmount, winAmount |-> first.winAmount,
    currency |-> CurrencyOf(gamePayloads), gamePayloads |-> gamePayloads,
    errorMessage |-> errorMessage] : first \in FirstTransaction(call.params)}

\* if (firstTransaction) this.createRetryJobSafely({...})
refundBet_retry(call, gamePayloads, errorMessage) ==
  {[platformTxId |-> first.platformTxId, apiAction |-> REFUND_BET,
    agentId |-> call.params.agentId, userId |-> call.params.userId,
    requestPayload |-> [messageObj |-> CHOOSE m \in call.messageObj : TRUE,
                        refundTransactions |-> call.params.refundTransactions],
    roundId |-> first.roundId,
    betAmount |-> Total(call.params.refundTransactions, "betAmount"),
    winAmount |-> Total(call.params.refundTransactions, "winAmount"),
    currency |-> CurrencyOf(gamePayloads), gamePayloads |-> gamePayloads,
    errorMessage |-> errorMessage] : first \in FirstTransaction(call.params)}

refundBet_try(c, call, reply, a1) ==
  LET gamePayloads == CHOOSE g \in call.gamePayloads : TRUE
      rejected ==
        Outcome({IF a1 = "throws" THEN WriteError
                 ELSE InternalServerErrorException("Agent rejected refund")}, {},
                {AuditWrite(c, 1,
                   FailureOf(AGENT_REJECTED, "Agent rejected refund")
                     @@ refundBet_audit(c, call, gamePayloads),
                   refundBet_retry(call, gamePayloads, "Agent rejected refund"),
                   a1)})
      audited ==
        logAudit(c, 1, [status |-> SUCCESS]
                                 @@ refundBet_audit(c, call, gamePayloads), a1)
  IN Answered(reply, rejected, audited)

\* (mutant) the catch block audits the failure as placeBet does, and chains
\* no retry job.
refundBet_catch_auditOnly(c, call, err, a2) ==
  Outcome({err}, {},
          logAudit(c, 2, CaughtFailure(err)
                           @@ refundBet_audit(c, call, CHOOSE g \in call.gamePayloads : TRUE),
                   a2))

\* (mutant) the catch block creates the retry job next to the audit write
\* instead of in its .then() callback.
refundBet_catch_eager(c, call, err, a2) ==
  LET gamePayloads == CHOOSE g \in call.gamePayloads : TRUE
  IN Outcome({IF a2 = "throws" THEN WriteError ELSE err}, {},
             {AuditWrite(c, 2,
                CaughtFailure(err)
                  @@ refundBet_audit(c, call, gamePayloads), {}, a2)}
               \cup UNION {createRetryJobSafely(c, 2, [walletAuditId |-> <<c, 2>>] @@ p, "starts") :
                             p \in refundBet_retry(call, gamePayloads, err.message)})

refundBet_catch(c, call, err, a2) ==
  LET gamePayloads == CHOOSE g \in call.gamePayloads : TRUE
  IN Outcome({IF a2 = "throws" THEN WriteError ELSE err}, {},
             {AuditWrite(c, 2,
                CaughtFailure(err)
                  @@ refundBet_audit(c, call, gamePayloads),
                refundBet_retry(call, gamePayloads, err.message),
                a2)})

refundBet_send(c, params, fetch) ==
  /\ WalletFree(c)
  /\ LET agent == resolveAgent(params.agentId)
         gamePayloads == refundBet_gamePayloads(params, fetch)
         txns == [i \in 1..Len(params.refundTransactions) |->
                    refundBet_txn(params, params.refundTransactions[i], gamePayloads)]
         messageObj == [action |-> "cancelBet", txns |-> txns]
     IN walletCalls' = [walletCalls EXCEPT ![c] =
          IF agent.found
          THEN Posted(REFUND_BET, params, messageObj, gamePayloads)
          ELSE Settled([NoWalletCall EXCEPT !.op = REFUND_BET, !.params = params],
                       {}, {agent.error}, {})]
  /\ UNCHANGED <<betVars, walletApiAdapter, walletAudits, retryJobs, writes>>

refundBet_receive(c, reply, a1, a2) ==
  LET call == walletCalls[c]
      body == refundBet_try(c, call, reply, a1)
      handled == refundBet_catch(c, call, Caught(body), a2)
  IN Receive(c, REFUND_BET, reply, TryCatch(body, handled))

-----------------------------------------------------------------------------
(* The audit service and the retry service *)

WriteFates == {"written", "rejected"}

\* The row WalletAuditService.logAudit saves and resolves with.
SavedAudit(w) == [id |-> <<w.call, w.n>>] @@ w.params

\* The row WalletRetryService.createRetryJob saves.
SavedRetryJob(w) == [id |-> <<w.call, w.n>>] @@ w.params

\* .then(async (auditRecord) => { this.createRetryJobSafely({...,
\* walletAuditId: auditRecord?.id }) })
ThenOf(w, auditRecord, fate) ==
  UNION {createRetryJobSafely(w.call, w.n,
                              [walletAuditId |-> auditRecord.id] @@ p, fate) :
           p \in w.then}

\* A started audit write completes: the record is saved and the .then()
\* callback runs, or the promise rejects and the .catch() callback logs it.
logAudit_done(w, fate, r) ==
  /\ w \in writes
  /\ w.kind = "audit"
  /\ w.state = "started"
  /\ IF fate = "written"
     THEN /\ walletAudits' = walletAudits \cup {SavedAudit(w)}
          /\ writes' = (writes \ {w}) \cup {[w EXCEPT !.state = "written"]}
                          \cup ThenOf(w, SavedAudit(w), r)
     ELSE /\ writes' = (writes \ {w}) \cup {[w EXCEPT !.state = "rejected"]}
          /\ UNCHANGED walletAudits
  /\ UNCHANGED <<betVars, walletApiAdapter, walletCalls, retryJobs>>

\* A started retry-job write completes.
createRetryJob_done(w, fate) ==
  /\ w \in writes
  /\ w.kind = "retry"
  /\ w.state = "started"
  /\ writes' = (writes \ {w}) \cup {[w EXCEPT !.state = fate]}
  /\ retryJobs' = IF fate = "written" THEN retryJobs \cup {SavedRetryJob(w)}
                  ELSE retryJobs
  /\ UNCHANGED <<betVars, walletApiAdapter, walletCalls, walletAudits>>

-----------------------------------------------------------------------------
(* The wallet gateway *)

\* WalletService is constructed with or without a WalletApiAdapter.
NoAdapter == [present |-> FALSE]

WalletIdle ==
  /\ walletCalls = [c \in WalletCallIds |-> NoWalletCall]
  /\ walletAudits = {}
  /\ retryJobs = {}
  /\ writes = {}

-----------------------------------------------------------------------------
(* The bet ledger *)

\* BetModule.forFeature() injects no validator; forRoot(v) injects one, here
\* a validator that knows game G1 only.
NoValidator == [present |-> FALSE, games |-> {}]

ValidatorOfG1 == [present |-> TRUE, games |-> {"G1"}]

\* The table the service finds when it is constructed: empty, or holding the
\* bet T1 of game G1 as createPlacement leaves it, or as recordSettlement
\* leaves it after a settlement with winAmount "0.00".
PlacedT1 == Stored(InsertedRow(PlacementEntity(PlacementOf("T1", "G1")), 1, 0))

InitBet ==
  /\ bets \in {{}, {PlacedT1},
               {Stored(SettledEntity(PlacedT1, SettlementOf("T1", "0.00"), 0))}}
  /\ nextId = Cardinality(bets) + 1
  /\ now = 0
  /\ gameValidationService = NoValidator
  /\ calls = [c \in CallIds |-> NoCall]
  /\ walletApiAdapter = NoAdapter
  /\ WalletIdle

NextBet ==
  \/ \E c \in CallIds, p \in CreateBetParams : createPlacement_find(c, p)
  \/ \E c \in CallIds : createPlacement_save(c)
  \/ \E c \in CallIds, p \in SettlementParams : recordSettlement_find(c, p)
  \/ \E c \in CallIds, p \in UpdateBetStatusParams : updateStatus_find(c, "updateStatus", p)
  \/ \E c \in CallIds, tx \in TxIds : markPendingSettlement_find(c, tx, "operator")
  \/ \E c \in CallIds, tx \in TxIds : markSettlementFailed_find(c, tx, "operator")
  \/ \E c \in CallIds, p \in UpdateBetParams : updateBet_find(c, p)
  \/ \E c \in CallIds : update_save(c)
  \/ \E c \in CallIds : deletePlacedBets(c)
  \/ \E c \in CallIds, d \in Times : deleteBetsBeforeDate(c, d)
  \/ Tick

SpecBet == InitBet /\ [][NextBet]_vars

-----------------------------------------------------------------------------
(* Placements with and without a validator *)

InitGate ==
  /\ bets \in {{}, {PlacedT1}}
  /\ nextId = Cardinality(bets) + 1
  /\ now = 0
  /\ gameValidationService \in {NoValidator, ValidatorOfG1}
  /\ calls = [c \in CallIds |-> NoCall]
  /\ walletApiAdapter = NoAdapter
  /\ WalletIdle

NextGate ==
  \/ \E c \in CallIds, p \in CreateBetParams : createPlacement_find(c, p)
  \/ \E c \in CallIds : createPlacement_save(c)
  \/ Tick

SpecGate == InitGate /\ [][NextGate]_vars

-----------------------------------------------------------------------------
(* Placements of a game the validator has come to refuse *)

\* The validator accepts G1 only; the table holds the bet T1 of game G1, or
\* the bet T1 of game G2 placed while G2 was accepted.
InitRefused ==
  /\ bets \in {{Stored(InsertedRow(PlacementEntity(PlacementOf("T1", gc)), 1, 0))} :
                 gc \in {"G1", "G2"}}
  /\ nextId = 2
  /\ now = 0
  /\ gameValidationService = ValidatorOfG1
  /\ calls = [c \in CallIds |-> NoCall]
  /\ walletApiAdapter = NoAdapter
  /\ WalletIdle

SpecRefused == InitRefused /\ [][NextGate]_vars

-----------------------------------------------------------------------------
(* Placements with optional fields *)

\* What a caller adds to the required fields: nothing, a status, an
\* updatedBy, amounts with two decimals, an amount with four, an amount that
\* is not a number.
PlacementsWithExtras ==
  {o @@ PlacementOf(tx, "G1") :
     tx \in TxIds,
     o \in {NoFields, [status |-> WON], [updatedBy |-> "agent"],
            [winAmount |-> "9.00", balanceAfterBet |-> "5.00"],
            [betAmount |-> "1.2345"], [betAmount |-> "abc"]}}

NextPlace ==
  \/ \E c \in CallIds, p \in PlacementsWithExtras : createPlacement_find(c, p)
  \/ \E c \in CallIds : createPlacement_save(c)
  \/ Tick

SpecPlace == InitGate /\ [][NextPlace]_vars

-----------------------------------------------------------------------------
(* Settlements of a stored bet *)

\* Settlements of the stored bet T1, and one of the unknown T2.
SettlementsOfT1 ==
  {SettlementOf("T1", w) : w \in {"0.00", "9.00", "-1.00", "", "abc"}} \cup
  {o @@ SettlementOf("T1", "9.00") :
     o \in {[status |-> CANCELLED], [gameInfo |-> "crashed at 2.5"],
            [settledAt |-> 0]}} \cup
  {[status |-> WON] @@ SettlementOf("T1", "0.00")} \cup
  {SettlementOf("T2", "9.00")}

\* The bet T1 as a createPlacement with optional fields leaves it, and the bet
\* T3 that no call names.
RichT1 ==
  Stored(InsertedRow(PlacementEntity(
    [gameInfo |-> "lobby", settlementRefTxId |-> "S0", balanceAfterBet |-> "5.00"]
      @@ PlacementOf("T1", "G1")), 1, 0))

OtherT3 == Stored(InsertedRow(PlacementEntity(PlacementOf("T3", "G2")), 2, 0))

InitSettle ==
  /\ bets = {RichT1, OtherT3}
  /\ nextId = 3
  /\ now = 0
  /\ gameValidationService = NoValidator
  /\ calls = [c \in CallIds |-> NoCall]
  /\ walletApiAdapter = NoAdapter
  /\ WalletIdle

NextSettle ==
  \/ \E c \in CallIds, p \in SettlementsOfT1 : recordSettlement_find(c, p)
  \/ \E c \in CallIds : update_save(c)
  \/ Tick

SpecSettle == InitSettle /\ [][NextSettle]_vars

-----------------------------------------------------------------------------
(* Settlements of a bet in each status *)

\* The bet T1 as a createPlacement that names status st leaves it.
BetT1In(st) ==
  Stored(InsertedRow(PlacementEntity([status |-> st] @@ PlacementOf("T1", "G1")), 1, 0))

InitReopen ==
  /\ bets \in {{BetT1In(st)} :
                 st \in {PLACED, PENDING_SETTLEMENT, WON, LOST, CANCELLED, REFUNDED,
                         SETTLEMENT_FAILED}}
  /\ nextId = 2
  /\ now = 0
  /\ gameValidationService = NoValidator
  /\ calls = [c \in CallIds |-> NoCall]
  /\ walletApiAdapter = NoAdapter
  /\ WalletIdle

\* Settlements of T1 without a status, and with a status that is neither Won
\* nor Lost.
NextReopen ==
  \/ \E c \in CallIds,
         p \in {SettlementOf("T1", w) : w \in {"0.00", "9.00"}} \cup
               {[status |-> st] @@ SettlementOf("T1", "5.00") :
                  st \in {PLACED, PENDING_SETTLEMENT, CANCELLED}} :
       recordSettlement_find(c, p)
  \/ \E c \in CallIds : update_save(c)
  \/ Tick

SpecReopen == InitReopen /\ [][NextReopen]_vars

-----------------------------------------------------------------------------
(* Status updates and patches of a stored bet *)

\* Status updates of the stored bet T1, and one of the unknown T2.
StatusUpdatesOfT1 ==
  {[externalPlatformTxId |-> "T1", status |-> st, updatedBy |-> "operator"] :
     st \in {CANCELLED, WON}} \cup
  {[externalPlatformTxId |-> "T2", status |-> CANCELLED, updatedBy |-> "operator"]}

\* Patches of the stored bet T1 with no, one and two optional fields, and one
\* of the unknown T2.
PatchesOfT1 ==
  {o @@ [externalPlatformTxId |-> "T1", updatedBy |-> "patcher"] :
     o \in {NoFields, [gameInfo |-> "patched"], [winAmount |-> "9.00", status |-> WON]}} \cup
  {[externalPlatformTxId |-> "T2", updatedBy |-> "patcher", gameInfo |-> "patched"]}

NextPatch ==
  \/ \E c \in CallIds, p \in StatusUpdatesOfT1 : updateStatus_find(c, "updateStatus", p)
  \/ \E c \in CallIds, tx \in TxIds : markPendingSettlement_find(c, tx, "operator")
  \/ \E c \in CallIds, tx \in TxIds : markSettlementFailed_find(c, tx, "operator")
  \/ \E c \in CallIds, p \in PatchesOfT1 : updateBet_find(c, p)
  \/ \E c \in CallIds : update_save(c)
  \/ Tick

SpecPatch == InitSettle /\ [][NextPatch]_vars

-----------------------------------------------------------------------------
(* The wallet gateway on its own *)

\* What an earlier settleBet call (request 0) has left behind, if there was
\* one: its post was refused, its audit record and its retry job were saved.
EarlierCall ==
  LET params == [agentId |-> "A1", userId |-> "u1", platformTxId |-> "T0",
                 winAmount |-> 9, betAmount |-> 5, roundId |-> "R0", gameCode |-> "G1"]
      messageObj == [action |-> "settle", txns |-> <<settleBet_txn(params, [gameCode |-> "G1"])>>]
  IN Posted(SETTLE_BET, params, messageObj, [gameCode |-> "G1"])

EarlierAuditWrite ==
  CHOOSE w \in settleBet_catch(0, EarlierCall, ConnectionRefused, "throws", "starts").started : TRUE

EarlierRetryWrite ==
  CHOOSE w \in ThenOf(EarlierAuditWrite, SavedAudit(EarlierAuditWrite), "starts") : TRUE

EarlierLogs ==
  [audits |-> {SavedAudit(EarlierAuditWrite)},
   jobs |-> {SavedRetryJob(EarlierRetryWrite)},
   writes |-> {[EarlierAuditWrite EXCEPT !.state = "written"],
               [EarlierRetryWrite EXCEPT !.state = "written"]}]

InitWallet ==
  /\ bets = {}
  /\ nextId = 1
  /\ now = 0
  /\ gameValidationService = NoValidator
  /\ calls = [c \in CallIds |-> NoCall]
  /\ walletApiAdapter \in {NoAdapter, [present |-> TRUE]}
  /\ walletCalls = [c \in WalletCallIds |-> NoWalletCall]
  /\ \E logs \in {[audits |-> {}, jobs |-> {}, writes |-> {}], EarlierLogs} :
       /\ walletAudits = logs.audits
       /\ retryJobs = logs.jobs
       /\ writes = logs.writes

NextWallet ==
  \/ \E c \in WalletCallIds, a \in AgentIds : getBalance_send(c, a, "u1")
  \/ \E c \in WalletCallIds, reply \in Replies, a1, a2 \in StartFates :
       getBalance_receive(c, reply, a1, a2)
  \/ \E c \in WalletCallIds, p \in PlaceBetParams, fetch \in Fetches, a2 \in StartFates :
       placeBet_send(c, p, fetch, a2)
  \/ \E c \in WalletCallIds, reply \in Replies, a1, a2 \in StartFates :
       placeBet_receive(c, reply, a1, a2)
  \/ \E c \in WalletCallIds, p \in SettleBetParams, fetch \in Fetches :
       settleBet_send(c, p, fetch)
  \/ \E c \in WalletCallIds, reply \in Replies, fetch \in Fetches, a1, a2 \in StartFates :
       settleBet_receive(c, reply, fetch, a1, a2)
  \/ \E c \in WalletCallIds, p \in RefundBetParams, fetch \in Fetches :
       refundBet_send(c, p, fetch)
  \/ \E c \in WalletCallIds, reply \in Replies, a1, a2 \in StartFates :
       refundBet_receive(c, reply, a1, a2)
  \/ \E w \in writes, fate \in WriteFates, r \in StartFates : logAudit_done(w, fate, r)
  \/ \E w \in writes, fate \in WriteFates : createRetryJob_done(w, fate)

SpecWallet == InitWallet /\ [][NextWallet]_vars

-----------------------------------------------------------------------------
(* Reconciliation queries and purges *)

\* Four bets placed at time 0: one without betPlacedAt, one with betPlacedAt
\* 0, one whose caller dated it 1, and one that has been settled as Lost.
UndatedT3 == Stored(InsertedRow(PlacementEntity(PlacementOf("T3", "G1")), 1, 0))

DatedT4 ==
  Stored(InsertedRow(PlacementEntity([betPlacedAt |-> 0] @@ PlacementOf("T4", "G1")), 2, 0))

LateDatedT5 ==
  Stored(InsertedRow(PlacementEntity([betPlacedAt |-> 1] @@ PlacementOf("T5", "G1")), 3, 0))

LostT6 ==
  Stored(SettledEntity(
    Stored(InsertedRow(PlacementEntity([betPlacedAt |-> 0] @@ PlacementOf("T6", "G1")), 4, 0)),
    SettlementOf("T6", "0.00"), 0))

\* The ledger next to the audit log and the retry queue an earlier settleBet
\* call has left.
InitSweep ==
  /\ bets = {UndatedT3, DatedT4, LateDatedT5, LostT6}
  /\ nextId = 5
  /\ now = 0
  /\ gameValidationService = NoValidator
  /\ calls = [c \in CallIds |-> NoCall]
  /\ walletApiAdapter = NoAdapter
  /\ walletCalls = [c \in WalletCallIds |-> NoWalletCall]
  /\ walletAudits = EarlierLogs.audits
  /\ retryJobs = EarlierLogs.jobs
  /\ writes = EarlierLogs.writes

NextSweep ==
  \/ \E c \in CallIds, o \in {NoFields, [betPlacedAt |-> 0]} :
       createPlacement_find(c, o @@ PlacementOf("T2", "G1"))
  \/ \E c \in CallIds : createPlacement_save(c)
  \/ \E c \in CallIds, olderThanMs \in Times : findOldPlacedBets(c, olderThanMs)
  \/ \E c \in CallIds : deletePlacedBets(c)
  \/ \E c \in CallIds, d \in Times : deleteBetsBeforeDate(c, d)
  \/ Tick

SpecSweep == InitSweep /\ [][NextSweep]_vars

\* The gateway and the ledger of one process, next to the logs an earlier
\* call has left: wallet calls and their background writes interleave with
\* ledger calls.
NextCore == NextWallet \/ NextSweep

SpecCore == InitSweep /\ [][NextCore]_vars

\* A posted request is answered: http.post resolves, rejects or times out.
Answers ==
  \E c \in WalletCallIds, reply \in Replies, fetch \in Fetches, a1, a2 \in StartFates :
    \/ getBalance_receive(c, reply, a1, a2)
    \/ placeBet_receive(c, reply, a1, a2)
    \/ settleBet_receive(c, reply, fetch, a1, a2)
    \/ refundBet_receive(c, reply, a1, a2)

\* The gateway when every post is answered in the end; nothing is assumed of
\* the audit service and the retry service, whose writes may never complete.
SpecWalletFair == SpecWallet /\ WF_vars(Answers)


-----------------------------------------------------------------------------
(* Properties of the bet ledger *)

\* The step in which slot c starts a call of op (and runs it up to its save).
Starts(c, op) == calls[c].pc = "idle" /\ calls'[c].op = op

\* The step in which slot c runs the repo.save that ends its call.
Saves(c) == calls[c].pc = "save" /\ calls'[c].pc = "done"

\* No stored bet carries the externalPlatformTxId.
Unknown(externalPlatformTxId) ==
  \A b \in bets : b.externalPlatformTxId # externalPlatformTxId

\* Slot c's call has failed with NotFound and the store is as it was.
NotFoundWithoutChange(c) ==
  /\ calls'[c].pc = "done" /\ calls'[c].result = "NotFound" /\ calls'[c].ret = {}
  /\ bets' = bets /\ nextId' = nextId

SamePlacement(p, q) ==
  p.externalPlatformTxId = q.externalPlatformTxId /\ p.gameCode = q.gameCode

\* Slot c1 holds a successful createPlacement whose row is still stored under
\* the pair p names.
PlacedBefore(c1, p) ==
  /\ calls[c1].op = "createPlacement" /\ calls[c1].result = "ok"
  /\ SamePlacement(calls[c1].params, p)
  /\ \E r \in calls[c1].ret, b \in bets : b.id = r.id /\ SamePlacement(b, p)

\* C1: a createPlacement that follows a successful createPlacement of the same
\* (externalPlatformTxId, gameCode) fails with Conflict, changes no row, and
\* leaves exactly one row with that pair.
C1_SecondPlacementConflicts ==
  [][\A c \in CallIds, c1 \in CallIds :
       (Starts(c, "createPlacement") /\ PlacedBefore(c1, calls'[c].params)) =>
         /\ calls'[c].pc = "done"
         /\ calls'[c].result = "Conflict"
         /\ bets' = bets
         /\ Cardinality({b \in bets' : SamePlacement(b, calls'[c].params)}) = 1]_vars

C1_Witness ==
  \E c \in CallIds, c1 \in CallIds :
    /\ calls[c].op = "createPlacement" /\ calls[c].result = "Conflict"
    /\ PlacedBefore(c1, calls[c].params)
    /\ Cardinality({b \in bets : SamePlacement(b, calls[c].params)}) = 1

\* C2: recordSettlement on a bet stored as Won or Lost returns the stored row,
\* whatever the parameters, and writes nothing.
C2_TerminalSettlementIsNoOp ==
  [][\A c \in CallIds :
       Starts(c, "recordSettlement") =>
         \A b \in bets :
           (b.externalPlatformTxId = calls'[c].params.externalPlatformTxId
              /\ b.status \in {WON, LOST}) =>
             /\ calls'[c].pc = "done"
             /\ calls'[c].result = "ok"
             /\ calls'[c].ret = {b}
             /\ bets' = bets]_vars

C2_Witness ==
  \E c \in CallIds :
    /\ calls[c].op = "recordSettlement" /\ calls[c].pc = "done"
    /\ calls[c].result = "ok"
    /\ calls[c].params.winAmount = "9.00"
    /\ \E r \in calls[c].ret : r.status = LOST /\ r.winAmount = "0.000" /\ r \in bets

\* C9: no interleaving of createPlacement calls leaves two rows with the same
\* (externalPlatformTxId, gameCode), and no createPlacement step changes or
\* removes a row that is already stored.
PlacementUnique ==
  \A b1 \in bets, b2 \in bets : SamePlacement(b1, b2) => b1 = b2

C9_ConcurrentPlacementsKeepOneRow ==
  /\ []PlacementUnique
  /\ [][\A c \in CallIds :
          (calls'[c].op = "createPlacement" /\ calls'[c] # calls[c]) =>
            bets \subseteq bets']_vars

\* Two placements of the same pair were both past the existence check before
\* either inserted: one inserted, the store refused the other.
C9_Witness ==
  \E c1 \in CallIds, c2 \in CallIds :
    /\ calls[c1].op = "createPlacement" /\ calls[c1].result = "ok"
    /\ calls[c2].op = "createPlacement" /\ calls[c2].result = "QueryFailed"
    /\ SamePlacement(calls[c1].params, calls[c2].params)
    /\ Cardinality({b \in bets : SamePlacement(b, calls[c1].params)}) = 1

\* The stored rows with an externalPlatformTxId, whatever their gameCode.
RowsOfTx(externalPlatformTxId) ==
  {b \in bets : b.externalPlatformTxId = externalPlatformTxId}

\* C31: no state holds two rows with the same externalPlatformTxId, so a
\* lookup by externalPlatformTxId alone matches at most one row; a
\* createPlacement whose externalPlatformTxId is stored under other game codes
\* only (and whose game the validator, if any, accepts) passes the existence
\* check, and its insert next to a row with that externalPlatformTxId is
\* refused and changes no row.
C31_OneRowPerExternalTxId ==
  /\ [](\A tx \in TxIds :
          /\ Cardinality(RowsOfTx(tx)) <= 1
          /\ Cardinality(Matching(whereByExternalTx(tx, NULL))) <= 1)
  /\ [][\A c \in CallIds :
          /\ (/\ Starts(c, "createPlacement")
              /\ calls'[c].result # "NotFound"
              /\ \A b \in RowsOfTx(calls'[c].params.externalPlatformTxId) :
                   b.gameCode # calls'[c].params.gameCode)
               => calls'[c].pc = "save"
          /\ (/\ Saves(c) /\ calls[c].op = "createPlacement"
              /\ RowsOfTx(calls[c].params.externalPlatformTxId) # {})
               => calls'[c].result = "QueryFailed" /\ bets' = bets]_vars

\* A placement of T1 under G2 has passed the existence check and has been
\* refused by the store, which holds T1 under G1 as it was placed.
C31_Witness ==
  \E c \in CallIds :
    /\ calls[c].op = "createPlacement" /\ calls[c].result = "QueryFailed"
    /\ calls[c].params = PlacementOf("T1", "G2")
    /\ RowsOfTx("T1") = {PlacedT1}

StatusSetters ==
  {"updateStatus", "markPendingSettlement", "markSettlementFailed", "updateBet"}

\* A step takes a stored bet out of Won or Lost, or back to Placed.
MovesBack(b, b2) ==
  /\ b.id = b2.id
  /\ \/ b.status \in {WON, LOST} /\ b2.status # b.status
     \/ b.status # PLACED /\ b2.status = PLACED

\* C10 as claimed: no stored bet leaves Won or Lost for Placed or
\* PendingSettlement, and none returns from a later status to Placed.
C10_StatusOnlyMovesForward ==
  [][\A b \in bets, b2 \in bets' :
       b.id = b2.id =>
         /\ (b.status \in {WON, LOST} => b2.status \notin {PLACED, PENDING_SETTLEMENT})
         /\ (b.status # PLACED => b2.status # PLACED)]_vars

\* C10 as amended: a stored bet leaves Won or Lost, or returns to Placed, only
\* in the save of updateStatus, markPendingSettlement, markSettlementFailed or
\* updateBet, or of a recordSettlement that read the row before it was Won or
\* Lost.
C10_OnlySettersMoveBack ==
  [][\A b \in bets, b2 \in bets' :
       MovesBack(b, b2) =>
         \E c \in CallIds :
           /\ Saves(c)
           /\ \/ calls[c].op \in StatusSetters
              \/ /\ calls[c].op = "recordSettlement"
                 /\ \A r \in calls[c].read : r.status \notin {WON, LOST}]_vars

\* A settled bet was put back to Placed by a status setter.
C10_Witness ==
  \E c1 \in CallIds, c2 \in CallIds :
    /\ calls[c1].op = "recordSettlement" /\ calls[c1].result = "ok"
    /\ calls[c2].op \in StatusSetters /\ calls[c2].result = "ok"
    /\ \E r1 \in calls[c1].ret, r2 \in calls[c2].ret, b \in bets :
         /\ r1.id = r2.id /\ b.id = r2.id
         /\ r1.status \in {WON, LOST}
         /\ r2.settledAt # NoDate /\ r2.winAmount # NULL
         /\ r2.status = PLACED /\ b.status = PLACED

-----------------------------------------------------------------------------
(* Properties of placements with and without a validator *)

\* The games of the inputs that a configured validator refuses.
RefusedGames == {"G2"}

\* C15: with a validator configured, a createPlacement of a game the
\* validator refuses fails with NotFound and inserts no row, then or later;
\* with no validator, a createPlacement of any game goes on to the existence
\* check: Conflict when the placement is stored, the insert otherwise.
C15_ValidatorGuardsPlacement ==
  [][\A c \in CallIds :
       /\ (Starts(c, "createPlacement") /\ gameValidationService.present
             /\ calls'[c].params.gameCode \in RefusedGames)
            => NotFoundWithoutChange(c)
       /\ (Starts(c, "createPlacement") /\ ~gameValidationService.present)
            => IF \E b \in bets : SamePlacement(b, calls'[c].params)
                 THEN calls'[c].result = "Conflict"
                 ELSE calls'[c].pc = "save"
       /\ gameValidationService.present
            => \A b \in bets' \ bets : b.gameCode \notin RefusedGames]_vars

\* With a validator configured, a placement of the refused game G2 has failed
\* with NotFound and a placement of G1 has been stored.
C15_Witness ==
  /\ gameValidationService.present
  /\ \E c \in CallIds :
       /\ calls[c].op = "createPlacement" /\ calls[c].result = "NotFound"
       /\ calls[c].params.gameCode = "G2"
  /\ \E c \in CallIds :
       /\ calls[c].op = "createPlacement" /\ calls[c].result = "ok"
       /\ calls[c].params.gameCode = "G1"
  /\ \A b \in bets : b.gameCode = "G1"

\* C37: with a validator configured, a createPlacement of a game the
\* validator refuses fails with NotFound and changes no row also when the
\* placement it names is already stored; and a createPlacement that has
\* failed with Conflict is of a game the validator accepts, or there is no
\* validator.
C37_ValidationComesBeforeTheDuplicateCheck ==
  /\ [][\A c \in CallIds :
          (/\ Starts(c, "createPlacement")
           /\ gameValidationService.present
           /\ ~validateGame(calls'[c].params.gameCode)
           /\ \E b \in bets : SamePlacement(b, calls'[c].params)) =>
            /\ calls'[c].pc = "done" /\ calls'[c].result = "NotFound"
            /\ bets' = bets]_vars
  /\ [](\A c \in CallIds :
          (calls[c].op = "createPlacement" /\ calls[c].result = "Conflict") =>
            (gameValidationService.present => validateGame(calls[c].params.gameCode)))

\* The placement of T1 for the refused game G2 has failed with NotFound
\* while the bet T1 of game G2 is stored.
C37_Witness ==
  /\ gameValidationService.present
  /\ \E c \in CallIds :
       /\ calls[c].op = "createPlacement" /\ calls[c].result = "NotFound"
       /\ ~validateGame(calls[c].params.gameCode)
       /\ \E b \in bets : SamePlacement(b, calls[c].params)

\* The number a decimal string denotes, in ten-thousandths; -1 for a string
\* that denotes none.
TenThousandths(v) ==
  CASE v \in {"5.00", "5.000"} -> 50000
    [] v \in {"9.00", "9.000"} -> 90000
    [] v = "1.2345" -> 12345
    [] v = "1.235" -> 12350
    [] v \in {"0.00", "0.000"} -> 0
    [] OTHER -> -1

\* Two values of a money field are the same amount, or are both null.
SameAmount(v, w) ==
  IF v = NULL \/ w = NULL THEN v = w
  ELSE TenThousandths(v) = TenThousandths(w) /\ TenThousandths(v) # -1

IdentityFields ==
  {"externalPlatformTxId", "userId", "roundId", "gameCode", "currency",
   "operatorId", "createdBy"}

MoneyFields == {"betAmount", "winAmount", "balanceAfterBet", "balanceAfterSettlement"}

\* The placement of call c succeeds in this step.
Places(c) ==
  Saves(c) /\ calls[c].op = "createPlacement" /\ calls'[c].result = "ok"

\* What the claim says of status, updatedBy and the identity fields of the row
\* r stored for params.
PlacedAsSupplied(r, params) ==
  /\ r.status = IF "status" \in DOMAIN params THEN params.status ELSE PLACED
  /\ r.updatedBy = IF "updatedBy" \in DOMAIN params THEN params.updatedBy
                   ELSE params.createdBy
  /\ \A f \in IdentityFields : r[f] = params[f]

\* C29: a successful createPlacement stores one new row with the
\* status, updatedBy and identity fields above, whose money fields are the
\* amounts supplied, and returns a row that is the stored row (with the same
\* amounts).
C29_PlacementStoresWhatWasSupplied ==
  [][\A c \in CallIds :
       Places(c) =>
         \E r \in bets' \ bets :
           /\ bets' = bets \cup {r}
           /\ PlacedAsSupplied(r, calls[c].params)
           /\ \A f \in MoneyFields \cap DOMAIN calls[c].params :
                SameAmount(r[f], calls[c].params[f])
           /\ \A ret \in calls'[c].ret :
                /\ \A f \in BetFields \ DecimalColumns : ret[f] = r[f]
                /\ \A f \in DecimalColumns : SameAmount(ret[f], r[f])]_vars

\* What holds of every placement: it stores one new row whose status is the
\* supplied status or Placed, whose updatedBy is the supplied updatedBy or
\* createdBy, whose identity fields are the supplied ones and whose money
\* fields are what the decimal column makes of the supplied strings (the
\* amount rounded to three decimals; zero for a string that is not a number);
\* the returned row is the stored row except that its decimal fields are the
\* strings as supplied.
PlacementStoresTheColumnValues ==
  [][\A c \in CallIds :
       Places(c) =>
         \E r \in bets' \ bets :
           /\ bets' = bets \cup {r}
           /\ PlacedAsSupplied(r, calls[c].params)
           /\ \A f \in MoneyFields :
                r[f] = IF f \in DOMAIN calls[c].params
                       THEN DecimalColumn(calls[c].params[f]) ELSE NULL
           /\ \A ret \in calls'[c].ret :
                /\ \A f \in BetFields \ DecimalColumns : ret[f] = r[f]
                /\ \A f \in DecimalColumns :
                     ret[f] = IF f \in DOMAIN calls[c].params
                              THEN calls[c].params[f] ELSE NULL
           /\ calls'[c].ret # {}]_vars

\* A placement of T1 with status Won is stored as Won, and a placement of T2
\* with betAmount 1.2345 has returned 1.2345 while the row stored for it
\* holds 1.235.
C29_Witness ==
  \E c1, c2 \in CallIds, r1, r2 \in bets :
    /\ calls[c1].op = "createPlacement" /\ calls[c1].result = "ok"
    /\ calls[c1].params = [status |-> WON] @@ PlacementOf("T1", "G1")
    /\ r1.externalPlatformTxId = "T1" /\ r1.status = WON /\ r1.updatedBy = "creator"
    /\ calls[c2].op = "createPlacement" /\ calls[c2].result = "ok"
    /\ \E ret \in calls[c2].ret :
         ret.id = r2.id /\ ret.betAmount = "1.2345" /\ r2.betAmount = "1.235"

\* C30: a createPlacement that is rejected, not by the validator, while the
\* ledger holds a row with its externalPlatformTxId and gameCode is rejected
\* with Conflict, also when that row was inserted by a concurrent call after
\* this call's existence check.
C30_DuplicateIsAlwaysConflict ==
  [][\A c \in CallIds :
       (/\ calls[c].pc # "done" /\ calls'[c].pc = "done"
        /\ calls'[c].op = "createPlacement"
        /\ calls'[c].result \notin {"ok", "NotFound"}
        /\ \E b \in bets :
             /\ b.externalPlatformTxId = calls'[c].params.externalPlatformTxId
             /\ b.gameCode = calls'[c].params.gameCode)
         => calls'[c].result = "Conflict"]_vars

\* Two placements of the same bet have both passed the existence check; one
\* has stored its row and the other has been rejected by the store.
C30_Witness ==
  \E c1, c2 \in CallIds :
    /\ c1 # c2
    /\ calls[c1].op = "createPlacement" /\ calls[c2].op = "createPlacement"
    /\ calls[c1].params = calls[c2].params
    /\ calls[c1].result = "ok" /\ calls[c2].result = "QueryFailed"
    /\ \E b \in bets :
         /\ b.externalPlatformTxId = calls[c2].params.externalPlatformTxId
         /\ b.gameCode = calls[c2].params.gameCode

-----------------------------------------------------------------------------
(* Properties of settlements *)

\* The win amounts of the inputs that are numbers greater than zero.
AboveZero == {"9.00"}

\* The status a settlement is to give a bet that is neither Won nor Lost.
SettlementStatus(params) ==
  IF "status" \in DOMAIN params THEN params.status
  ELSE IF params.winAmount \in AboveZero THEN WON
  ELSE LOST

\* The stored row that has the key of the entity slot c saves.
RowOf(c, table) == {b \in table : \E e \in calls[c].entity : b.id = e.id}

\* C11: a recordSettlement that reads a bet that is neither Won nor Lost gives
\* it the caller's status when one is supplied, otherwise Won when winAmount
\* is greater than zero and Lost when it is zero, negative, empty or not a
\* number; the save that succeeds stores and returns that status.
C11_SettlementStatus ==
  [][\A c \in CallIds :
       /\ (Starts(c, "recordSettlement") /\ calls'[c].pc = "save") =>
            \A e \in calls'[c].entity : e.status = SettlementStatus(calls'[c].params)
       /\ (Saves(c) /\ calls[c].op = "recordSettlement" /\ calls'[c].result = "ok") =>
            /\ \A b \in RowOf(c, bets') : b.status = SettlementStatus(calls[c].params)
            /\ \A r \in calls'[c].ret : r.status = SettlementStatus(calls[c].params)
            /\ RowOf(c, bets') # {}]_vars

\* A settlement without a status whose winAmount is negative, empty or not a
\* number has been saved and the stored bet is Lost.
C11_Witness ==
  \E c \in CallIds, w \in {"-1.00", "", "abc"} :
    /\ calls[c].op = "recordSettlement" /\ calls[c].result = "ok"
    /\ calls[c].params = SettlementOf("T1", w)
    /\ \E r \in calls[c].ret, b \in bets : b.id = r.id /\ b.status = LOST

\* C12: a recordSettlement whose externalPlatformTxId matches no stored bet
\* fails with NotFound, inserts no row and leaves every stored row as it was.
C12_UnknownSettlementNotFound ==
  [][\A c \in CallIds :
       (Starts(c, "recordSettlement") /\ Unknown(calls'[c].params.externalPlatformTxId))
         => NotFoundWithoutChange(c)]_vars

\* A settlement of the unknown T2 has failed next to the two stored bets.
C12_Witness ==
  \E c \in CallIds :
    /\ calls[c].op = "recordSettlement" /\ calls[c].result = "NotFound"
    /\ calls[c].params.externalPlatformTxId = "T2"
    /\ bets = {RichT1, OtherT3}

\* The fields a settlement always writes.
SettlementFields == {"winAmount", "updatedBy", "settledAt", "status"}

\* Entity e is bet with the settlement's fields and the optional fields of
\* params written over it, settled at t when params carries no settledAt.
SettlementMerge(bet, e, params, t) ==
  /\ e.winAmount = params.winAmount /\ e.updatedBy = params.updatedBy
  /\ e.settledAt = (IF "settledAt" \in DOMAIN params THEN params.settledAt ELSE t)
  /\ \A f \in (DOMAIN params \cap BetFields) \ {"externalPlatformTxId", "settledAt", "status"} :
       e[f] = params[f]
  /\ \A f \in BetFields \ (SettlementFields \cup DOMAIN params) : e[f] = bet[f]

\* The save of entity e replaces the row of e's key by e as the store holds
\* it, with updatedAt kept or set to the time of the save, and touches no
\* other row.
StoresOnly(e) ==
  \E r \in bets' :
    /\ bets' = {b \in bets : b.id # e.id} \cup {r}
    /\ \A f \in BetFields \ {"updatedAt"} : r[f] = Stored(e)[f]
    /\ r.updatedAt \in {e.updatedAt, now}

C21_LastSettlementWins ==
  [][\A c \in CallIds :
       /\ \A c2 \in CallIds \ {c} :
            (/\ Starts(c, "recordSettlement")
             /\ calls[c2].op = "recordSettlement" /\ calls[c2].pc = "save"
             /\ calls[c2].read \subseteq bets
             /\ calls'[c].params.externalPlatformTxId = calls[c2].params.externalPlatformTxId)
              => calls'[c].pc = "save" /\ calls'[c].read = calls[c2].read
       /\ (Saves(c) /\ calls[c].op = "recordSettlement") =>
            \A e \in calls[c].entity :
              /\ e.winAmount \notin NotDecimal => calls'[c].result = "ok"
              /\ calls'[c].result = "ok" =>
                   \A r \in RowOf(c, bets') :
                     r.winAmount = DecimalColumn(e.winAmount) /\ r.status = e.status]_vars

\* Two settlements of T1 have both been saved, one as Won and one as Lost,
\* and the stored bet is Lost: the second was not short-circuited and wrote
\* over the first.
C21_Witness ==
  \E c1, c2 \in CallIds, b \in bets :
    /\ calls[c1].op = "recordSettlement" /\ calls[c1].params = SettlementOf("T1", "9.00")
    /\ calls[c2].op = "recordSettlement" /\ calls[c2].params = SettlementOf("T1", "0.00")
    /\ \E r \in calls[c1].ret : r.status = WON
    /\ \E r \in calls[c2].ret : r.status = LOST
    /\ b.id = RichT1.id /\ b.status = LOST /\ b.winAmount = "0.000"

-----------------------------------------------------------------------------
(* Properties of status updates and patches *)

\* The step in which slot c starts a call of op that finds no bet.
StartsUnknown(c, op) ==
  Starts(c, op) /\ Unknown(calls'[c].params.externalPlatformTxId)

\* The step in which slot c starts a call of op and loads a bet.
StartsKnown(c, op) ==
  Starts(c, op) /\ ~Unknown(calls'[c].params.externalPlatformTxId)

\* The step in which slot c's call of op saves its entity.
SavesOk(c, op) == Saves(c) /\ calls[c].op = op /\ calls'[c].result = "ok"

\* The stored row of slot c's entity differs before and after the step in the
\* fields of changed at most, and every other row is as it was.
ChangesOnly(c, changed) ==
  /\ \A b \in RowOf(c, bets), r \in RowOf(c, bets') :
       \A f \in BetFields \ changed : r[f] = b[f]
  /\ {b \in bets' : b \notin RowOf(c, bets')} = {b \in bets : b \notin RowOf(c, bets)}

\* C18 as stated: updateBet on an unknown externalPlatformTxId fails with
\* NotFound and changes nothing; on a stored bet its save changes updatedBy
\* and the fields the caller provided, and nothing else.
C18_PatchChangesOnlyProvidedFields ==
  [][\A c \in CallIds :
       /\ StartsUnknown(c, "updateBet") => NotFoundWithoutChange(c)
       /\ SavesOk(c, "updateBet") =>
            ChangesOnly(c, {"updatedBy"} \cup DOMAIN calls[c].params)]_vars

\* C18, amended: updateBet on an unknown externalPlatformTxId fails with
\* NotFound and changes nothing; on a stored bet it writes updatedBy and
\* exactly the fields the caller provided over the row it read, and its save
\* stores that entity, refreshes updatedAt and touches no other row.
C18_PatchWritesOverTheRowRead ==
  [][\A c \in CallIds :
       /\ StartsUnknown(c, "updateBet") => NotFoundWithoutChange(c)
       /\ StartsKnown(c, "updateBet") =>
            /\ calls'[c].pc = "save" /\ bets' = bets
            /\ \A bet \in calls'[c].read, e \in calls'[c].entity :
                 /\ bet \in bets /\ e.updatedBy = calls'[c].params.updatedBy
                 /\ \A f \in (DOMAIN calls'[c].params \cap BetFields)
                              \ {"externalPlatformTxId"} : e[f] = calls'[c].params[f]
                 /\ \A f \in BetFields \ DOMAIN calls'[c].params : e[f] = bet[f]
       /\ SavesOk(c, "updateBet") => \A e \in calls[c].entity : StoresOnly(e)]_vars

\* A patch of gameInfo has been saved at time 1: the stored bet carries the
\* new gameInfo and the patcher, and keeps what its placement wrote.
C18_Witness ==
  \E c \in CallIds, r \in bets :
    /\ calls[c].op = "updateBet" /\ calls[c].result = "ok"
    /\ "gameInfo" \in DOMAIN calls[c].params
    /\ r.id = RichT1.id /\ r.gameInfo = "patched" /\ r.updatedBy = "patcher"
    /\ r.settlementRefTxId = "S0" /\ r.status = PLACED /\ r.winAmount = NULL
    /\ r.updatedAt = 1
    /\ OtherT3 \in bets

StatusOps == {"updateStatus", "markPendingSettlement", "markSettlementFailed"}

\* The status each status operation is to store.
StatusOf(op, params) ==
  CASE op = "markPendingSettlement" -> PENDING_SETTLEMENT
    [] op = "markSettlementFailed" -> SETTLEMENT_FAILED
    [] OTHER -> params.status

\* C19 as stated: updateStatus, markPendingSettlement and markSettlementFailed
\* fail with NotFound on an unknown externalPlatformTxId without changing the
\* store; on a stored bet their save changes status and updatedBy and nothing
\* else.
C19_StatusUpdateChangesOnlyStatus ==
  [][\A c \in CallIds, op \in StatusOps :
       /\ StartsUnknown(c, op) => NotFoundWithoutChange(c)
       /\ SavesOk(c, op) => ChangesOnly(c, {"status", "updatedBy"})]_vars

\* C19, amended: the three status operations fail with NotFound on an unknown
\* externalPlatformTxId without changing the store; on a stored bet they write
\* their status and updatedBy over the row they read, and their save stores
\* that entity, refreshes updatedAt and touches no other row.
C19_StatusUpdateWritesOverTheRowRead ==
  [][\A c \in CallIds, op \in StatusOps :
       /\ StartsUnknown(c, op) => NotFoundWithoutChange(c)
       /\ StartsKnown(c, op) =>
            /\ calls'[c].pc = "save" /\ bets' = bets
            /\ \A bet \in calls'[c].read, e \in calls'[c].entity :
                 /\ bet \in bets
                 /\ e.status = StatusOf(op, calls'[c].params)
                 /\ e.updatedBy = "operator"
                 /\ \A f \in BetFields \ {"status", "updatedBy"} : e[f] = bet[f]
       /\ SavesOk(c, op) =>
            \A e \in calls[c].entity :
              StoresOnly(e) /\ \A r \in calls'[c].ret : r.status = StatusOf(op, calls[c].params)]_vars

\* markSettlementFailed has been saved at time 1: the stored bet is
\* SettlementFailed, updated by the operator, and otherwise as placed.
C19_Witness ==
  \E c \in CallIds, r \in bets :
    /\ calls[c].op = "markSettlementFailed" /\ calls[c].result = "ok"
    /\ r = [RichT1 EXCEPT !.status = SETTLEMENT_FAILED, !.updatedBy = "operator",
                          !.updatedAt = 1]
    /\ OtherT3 \in bets

-----------------------------------------------------------------------------
(* Properties of reconciliation queries and purges *)

\* The age of a bet against a threshold: by betPlacedAt when it has one, by
\* createdAt otherwise.
Stale(b, threshold) ==
  IF b.betPlacedAt = NoDate THEN b.createdAt < threshold ELSE b.betPlacedAt < threshold

\* C24: findOldPlacedBets(maxAge) returns exactly the stored rows that are
\* Placed and whose betPlacedAt (or createdAt, when betPlacedAt is null) is
\* strictly earlier than now - maxAge, and it changes nothing.
C24_OldPlacedBetsAreThePlacedStaleRows ==
  [][\A c \in CallIds :
       Starts(c, "findOldPlacedBets") =>
         /\ calls'[c].pc = "done" /\ calls'[c].result = "ok"
         /\ calls'[c].ret =
              {b \in bets : b.status = PLACED
                             /\ Stale(b, now - calls'[c].params.olderThanMs)}
         /\ UNCHANGED <<bets, walletAudits, retryJobs>>]_vars

\* At time 1 a query with maxAge 0 has returned the undated bet and the bet
\* dated 0, and neither the Placed bet created at 0 but dated 1 nor the Lost
\* bet dated 0.
C24_Witness ==
  \E c \in CallIds :
    /\ calls[c].op = "findOldPlacedBets" /\ calls[c].pc = "done"
    /\ now = 1 /\ calls[c].params.olderThanMs = 0
    /\ {UndatedT3, DatedT4} \subseteq calls[c].ret
    /\ LateDatedT5 \in bets \ calls[c].ret
    /\ LostT6 \in bets \ calls[c].ret

\* C25: deletePlacedBets removes exactly the Placed rows and
\* deleteBetsBeforeDate(cutoff) exactly the rows created before the cutoff,
\* whatever their status; each returns the number of rows it removed, leaves
\* the other rows as they were and touches no audit record and no retry job.
C25_PurgesRemoveExactlyTheirRows ==
  [][\A c \in CallIds :
       /\ Starts(c, "deletePlacedBets") =>
            /\ bets' = {b \in bets : b.status # PLACED}
            /\ calls'[c].pc = "done" /\ calls'[c].result = "ok"
            /\ calls'[c].count = Cardinality(bets) - Cardinality(bets')
            /\ UNCHANGED <<walletAudits, retryJobs>>
       /\ Starts(c, "deleteBetsBeforeDate") =>
            /\ bets' = {b \in bets : ~(b.createdAt < calls'[c].params.beforeDate)}
            /\ calls'[c].pc = "done" /\ calls'[c].result = "ok"
            /\ calls'[c].count = Cardinality(bets) - Cardinality(bets')
            /\ UNCHANGED <<walletAudits, retryJobs>>]_vars

\* deletePlacedBets has removed the three Placed bets and left the Lost one,
\* which a deleteBetsBeforeDate with cutoff 1 has then removed; the audit
\* record and the retry job of the earlier wallet call are still there.
C25_Witness ==
  \E c1, c2 \in CallIds :
    /\ calls[c1].op = "deletePlacedBets" /\ calls[c1].count = 3
    /\ calls[c2].op = "deleteBetsBeforeDate" /\ calls[c2].count = 1
    /\ calls[c2].params.beforeDate = 1
    /\ LostT6 \notin bets
    /\ walletAudits = EarlierLogs.audits /\ walletAudits # {}
    /\ retryJobs = EarlierLogs.jobs /\ retryJobs # {}

-----------------------------------------------------------------------------
(* Properties of the identity of a stored bet *)

\* Rows p and q carry the same externalPlatformTxId and the same createdBy.
SameOrigin(p, q) ==
  p.externalPlatformTxId = q.externalPlatformTxId /\ p.createdBy = q.createdBy

-----------------------------------------------------------------------------
(* Properties of settlements of a bet in each status *)

\* The statuses other than Won and Lost.
OpenStatuses == {PLACED, PENDING_SETTLEMENT, SETTLEMENT_FAILED, CANCELLED, REFUNDED}

\* Slot c starts a recordSettlement of a stored bet whose status is in sts.
SettlesBetIn(c, sts) ==
  /\ Starts(c, "recordSettlement")
  /\ \E b \in RowsOfTx(calls'[c].params.externalPlatformTxId) : b.status \in sts

\* C35: a recordSettlement of a stored bet returns the bet as it is, without
\* a save, exactly when the bet is Won or Lost; without a status in its
\* parameters, a recordSettlement of a bet that is Placed, PendingSettlement,
\* SettlementFailed, Cancelled or Refunded goes on to save the bet with the
\* caller's winAmount and with status Won or Lost, and the save that succeeds
\* stores that winAmount and that status.
C35_OnlyWonAndLostShortCircuit ==
  [][\A c \in CallIds :
       /\ SettlesBetIn(c, {WON, LOST}) =>
            /\ calls'[c].pc = "done" /\ calls'[c].result = "ok"
            /\ calls'[c].ret = RowsOfTx(calls'[c].params.externalPlatformTxId)
            /\ bets' = bets
       /\ SettlesBetIn(c, OpenStatuses) => calls'[c].pc = "save"
       /\ (SettlesBetIn(c, OpenStatuses) /\ "status" \notin DOMAIN calls'[c].params) =>
            \A e \in calls'[c].entity :
              /\ e.winAmount = calls'[c].params.winAmount
              /\ e.status \in {WON, LOST}
              /\ e.status = WON <=> calls'[c].params.winAmount \in AboveZero
       /\ (/\ Saves(c) /\ calls[c].op = "recordSettlement"
           /\ "status" \notin DOMAIN calls[c].params
           /\ calls'[c].result = "ok") =>
            /\ RowOf(c, bets') # {}
            /\ \A b \in RowOf(c, bets') :
                 /\ b.winAmount = DecimalColumn(calls[c].params.winAmount)
                 /\ b.status \in {WON, LOST}
                 /\ b.status = WON <=> calls[c].params.winAmount \in AboveZero]_vars

\* A settlement without a status has turned the Refunded bet into a Won bet
\* with its winAmount, while another holds the Refunded bet it read.
C35_Witness ==
  \E c1, c2 \in CallIds :
    /\ calls[c1].pc = "save" /\ calls[c1].read = {BetT1In(REFUNDED)}
    /\ calls[c2].op = "recordSettlement" /\ calls[c2].result = "ok"
    /\ calls[c2].params = SettlementOf("T1", "9.00")
    /\ \E b \in bets : b.status = WON /\ b.winAmount = "9.000"

\* C36: the save of a recordSettlement that names a status other than Won
\* and Lost stores that status and the caller's winAmount; and as long as the
\* stored bet has such a status, whichever call gave it, a recordSettlement
\* of the bet is not answered with the stored row: it goes on to save the bet
\* with its own winAmount and with its own status, or with Won or Lost when
\* it names none.
C36_OpenStatusLeavesTheBetOpen ==
  [][\A c \in CallIds :
       /\ (/\ Saves(c) /\ calls[c].op = "recordSettlement"
           /\ "status" \in DOMAIN calls[c].params
           /\ calls[c].params.status \in OpenStatuses
           /\ calls'[c].result = "ok") =>
            /\ RowOf(c, bets') # {}
            /\ calls'[c].ret \subseteq {SavedEntity(e, now) : e \in calls[c].entity}
            /\ \A b \in RowOf(c, bets') :
                 /\ b.status = calls[c].params.status
                 /\ b.winAmount = DecimalColumn(calls[c].params.winAmount)
       /\ SettlesBetIn(c, OpenStatuses) =>
            /\ calls'[c].result = "none"
            /\ calls'[c].ret = {}
            /\ calls'[c].read = RowsOfTx(calls'[c].params.externalPlatformTxId)
            /\ \A e \in calls'[c].entity :
                 /\ e.winAmount = calls'[c].params.winAmount
                 /\ e.status = SettlementStatus(calls'[c].params)]_vars

\* A settlement with status Placed has been saved, and a later settlement
\* without a status has read the row it left and is about to save it as Lost
\* with its own winAmount.
C36_Witness ==
  \E c1, c2 \in CallIds :
    /\ calls[c1].op = "recordSettlement" /\ calls[c1].result = "ok"
    /\ calls[c1].params = [status |-> PLACED] @@ SettlementOf("T1", "5.00")
    /\ calls[c2].pc = "save" /\ calls[c2].params = SettlementOf("T1", "0.00")
    /\ \E b \in bets :
         /\ b.status = PLACED /\ b.winAmount = "5.000" /\ b.updatedBy = "settler"
         /\ calls[c2].read = {b}
    /\ \E e \in calls[c2].entity : e.status = LOST /\ e.winAmount = "0.00"

-----------------------------------------------------------------------------
(* Properties of the wallet gateway *)

WalletDone(c) == walletCalls[c].pc = "done"

\* The writes call c handed to the audit service and the retry service.
WritesOf(c) == {w \in writes : w.call = c}

\* Call c has returned and none of its writes is still running.
Quiet(c) == WalletDone(c) /\ \A w \in WritesOf(c) : w.state # "started"

\* Every write of call c was saved: none threw, none rejected.
WritesSucceeded(c) == \A w \in WritesOf(c) : w.state = "written"

\* The audit records of call c, found by its requestId.
AuditsOf(c) == {a \in walletAudits : a.requestId = c}

\* The retry jobs saved for call c.
JobsOf(c) ==
  {j \in retryJobs : \E w \in WritesOf(c) : w.kind = "retry" /\ j = SavedRetryJob(w)}

\* Call c got a well-formed response whose status is not '0000'.
ApplicationFailure(c) ==
  /\ WalletDone(c)
  /\ \E r \in walletCalls[c].reply :
       /\ r.resolved
       /\ \E d \in r.data : "status" \in DOMAIN d /\ d.status # "0000"

\* The post of call c failed with a refused connection or a failed lookup.
NetworkFailure(c) ==
  /\ WalletDone(c)
  /\ \E r \in walletCalls[c].reply :
       ~r.resolved /\ r.error.code \in {"ECONNREFUSED", "ENOTFOUND"}

\* Call c is a settleBet call or a refundBet call with a non-empty batch.
Retried(c) ==
  \/ walletCalls[c].op = SETTLE_BET
  \/ walletCalls[c].op = REFUND_BET /\ walletCalls[c].params.refundTransactions # <<>>

\* C3: a call of any of the four operations whose well-formed response
\* carries a status other than '0000' is audited as AgentRejected and never
\* as a transport error, and has exactly one audit record, of status Failure:
\* never more than one, and one once its writes have been saved.
C3_RejectionAuditedOnce ==
  \A c \in WalletCallIds :
    ApplicationFailure(c) =>
      /\ Cardinality(AuditsOf(c)) <= 1
      /\ \A a \in AuditsOf(c) : a.status = FAILURE /\ a.failureType = AGENT_REJECTED
      /\ Quiet(c) /\ WritesSucceeded(c) => Cardinality(AuditsOf(c)) = 1

\* C4: a settleBet call, or a refundBet call with a non-empty batch, that the
\* agent rejected has exactly one audit record and exactly one retry job once
\* its audit and retry writes have been saved.
C4_RejectionOneAuditOneRetryJob ==
  \A c \in WalletCallIds :
    ApplicationFailure(c) /\ Retried(c) /\ Quiet(c) /\ WritesSucceeded(c) =>
      Cardinality(AuditsOf(c)) = 1 /\ Cardinality(JobsOf(c)) = 1

\* C5: a settleBet call, or a refundBet call with a non-empty batch, whose
\* post failed with a NetworkError never has more than one audit record or
\* retry job, and once its writes have been saved it has exactly one audit
\* record, of status Failure and failureType NetworkError, and exactly one
\* retry job, whose walletAuditId is the id of that record.
C5_NetworkErrorOneAuditOneRetryJob ==
  \A c \in WalletCallIds :
    NetworkFailure(c) /\ Retried(c) =>
      /\ Cardinality(AuditsOf(c)) <= 1
      /\ Cardinality(JobsOf(c)) <= 1
      /\ Quiet(c) /\ WritesSucceeded(c) =>
           \E a \in AuditsOf(c), j \in JobsOf(c) :
             /\ AuditsOf(c) = {a}
             /\ a.status = FAILURE
             /\ a.failureType = NETWORK_ERROR
             /\ JobsOf(c) = {j}
             /\ j.walletAuditId = a.id

C5_Witness ==
  \E c \in WalletCallIds :
    /\ NetworkFailure(c) /\ Retried(c) /\ Quiet(c) /\ WritesSucceeded(c)
    /\ Cardinality(JobsOf(c)) = 1
    /\ Cardinality(walletAudits) = 2

\* C6: every retry job is a SettleBet or a RefundBet job, and a getBalance or
\* a placeBet call never hands a write to the retry service, whatever its
\* outcome.
C6_RetryJobsOnlyForSettleAndRefund ==
  /\ \A j \in retryJobs : j.apiAction \in {SETTLE_BET, REFUND_BET}
  /\ \A c \in WalletCallIds :
       walletCalls[c].op \in {GET_BALANCE, PLACE_BET} =>
         \A w \in WritesOf(c) : w.kind # "retry"

C6_Witness ==
  \E c \in WalletCallIds :
    /\ walletCalls[c].op = PLACE_BET
    /\ NetworkFailure(c) /\ Quiet(c) /\ WritesSucceeded(c)
    /\ Cardinality(AuditsOf(c)) = 1

\* What the caller of call c observes when every write is started and saved.
WhenWritesSucceed(c) ==
  LET call == walletCalls[c]
      reply == CHOOSE r \in call.reply : TRUE
      getBalance == getBalance_try(c, call, reply, "starts")
      placeBet == placeBet_try(c, call, reply, "starts")
      settleBet == settleBet_try(c, call, reply, "starts")
      refundBet == refundBet_try(c, call, reply, "starts")
  IN IF call.reply = {}
     THEN Outcome({resolveAgent(call.params.agentId).error}, {}, {})
     ELSE CASE call.op = GET_BALANCE ->
                 TryCatch(getBalance, getBalance_catch(c, call, Caught(getBalance), "starts"))
            [] call.op = PLACE_BET ->
                 TryCatch(placeBet, placeBet_catch(c, call, Caught(placeBet), "starts"))
            [] call.op = SETTLE_BET ->
                 TryCatch(settleBet,
                          settleBet_catch(c, call, Caught(settleBet), "payload", "starts"))
            [] call.op = REFUND_BET ->
                 TryCatch(refundBet, refundBet_catch(c, call, Caught(refundBet), "starts"))

\* C7: whatever becomes of the audit and retry writes of a call (a
\* synchronous throw, a rejection), its caller observes what it observes when
\* they are saved: the same response or the same error.
C7_WriteFailuresNeverReachTheCaller ==
  \A c \in WalletCallIds :
    WalletDone(c) =>
      /\ walletCalls[c].thrown = WhenWritesSucceed(c).thrown
      /\ walletCalls[c].returned = WhenWritesSucceed(c).returned

\* The reply carries no data, or data whose status is not a string.
Malformed(reply) ==
  reply.resolved /\ \A d \in reply.data : Field(d, "status") = NULL

\* The audit rows call c has handed to the audit service, saved or not.
AuditRowsOf(c) == {w.params : w \in {x \in WritesOf(c) : x.kind = "audit"}}

\* C13: a call whose post is answered with no data or with data whose status
\* is not a string fails with the malformed-response error, returns nothing,
\* and hands the audit service neither a Success row nor an AgentRejected row.
C13_MalformedResponseFails ==
  \A c \in WalletCallIds :
    (WalletDone(c) /\ \E reply \in walletCalls[c].reply : Malformed(reply)) =>
      /\ walletCalls[c].thrown = {InternalServerErrorException("Malformed agent response")}
      /\ walletCalls[c].returned = {}
      /\ \A a \in AuditRowsOf(c) \cup AuditsOf(c) :
           a.status # SUCCESS /\ Field(a, "failureType") # AGENT_REJECTED

\* The message of the error each operation throws for a rejected request.
RejectionOf(op) ==
  CASE op = GET_BALANCE -> "Agent rejected getBalance"
    [] op = PLACE_BET -> "Agent rejected bet"
    [] op = SETTLE_BET -> "Agent rejected settlement"
    [] op = REFUND_BET -> "Agent rejected refund"

\* The error the wallet's reply to a call of op stands for, if any.
ErrorOf(op, reply) ==
  IF ~reply.resolved THEN {reply.error}
  ELSE IF Malformed(reply) THEN {InternalServerErrorException("Malformed agent response")}
  ELSE IF \E d \in reply.data : d.status # "0000"
    THEN {InternalServerErrorException(RejectionOf(op))}
  ELSE {}

\* Call c has ended as the wallet's reply alone determines: with the error
\* the reply stands for, or with the payload of an accepted reply.
EndsAsReplied(c) ==
  \E reply \in walletCalls[c].reply :
    /\ walletCalls[c].thrown = ErrorOf(walletCalls[c].op, reply)
    /\ IF ErrorOf(walletCalls[c].op, reply) # {}
         THEN walletCalls[c].returned = {}
         ELSE \E d \in reply.data, r \in walletCalls[c].returned :
                walletCalls[c].returned = {r} /\ r.raw = d /\ r.status = "0000"

\* Call c is a placeBet, settleBet or refundBet of a known agent that got no
\* game payloads from the adapter: there is none, or it threw.
WithoutProvider(c) ==
  /\ walletCalls[c].op \in {PLACE_BET, SETTLE_BET, REFUND_BET}
  /\ walletCalls[c].params.agentId \in DOMAIN Agents
  /\ \A g \in walletCalls[c].gamePayloads : DOMAIN g = {"gameCode"}

\* C14: a placeBet, settleBet or refundBet that gets no game payloads from
\* the adapter still posts its request, every transaction of which carries
\* the game code, and ends as the wallet's reply alone determines.
C14_ProviderFailureIsNotFatal ==
  \A c \in WalletCallIds :
    WithoutProvider(c) =>
      /\ walletCalls[c].pc \in {"sent", "done"}
      /\ \E m \in walletCalls[c].messageObj, g \in walletCalls[c].gamePayloads :
           \A i \in DOMAIN m.txns : m.txns[i].gameCode = g.gameCode
      /\ WalletDone(c) => EndsAsReplied(c)

\* C16: a call of any operation that names an agent the directory does not
\* know fails with NotFound, posts no request and gets no reply.
C16_UnknownAgentSendsNothing ==
  \A c \in WalletCallIds :
    (walletCalls[c].pc # "idle" /\ walletCalls[c].params.agentId \notin DOMAIN Agents) =>
      /\ WalletDone(c)
      /\ walletCalls[c].thrown = {NotFoundException("Agent not found")}
      /\ walletCalls[c].returned = {}
      /\ walletCalls[c].messageObj = {} /\ walletCalls[c].reply = {}

\* A settleBet that names the unknown agent A9 has failed with NotFound.
C16_Witness ==
  \E c \in WalletCallIds :
    /\ walletCalls[c].op = SETTLE_BET /\ walletCalls[c].params.agentId = "A9"
    /\ WalletDone(c) /\ \E e \in walletCalls[c].thrown : e.name = "NotFoundException"

\* C20: a call whose request is posted settles, whether or not the audit and
\* retry writes it starts ever complete.
C20_CallSettlesWithoutItsWrites ==
  \A c \in WalletCallIds : (walletCalls[c].pc = "sent") ~> WalletDone(c)

\* The caller holds the error of a settleBet that was refused while the audit
\* write of that call is still running and no audit record of it is saved.
C20_Witness ==
  \E c \in WalletCallIds :
    /\ WalletDone(c) /\ walletCalls[c].op = SETTLE_BET
    /\ walletCalls[c].thrown = {ConnectionRefused}
    /\ \E w \in WritesOf(c) : w.kind = "audit" /\ w.state = "started"
    /\ AuditsOf(c) = {}

\* Call c got a well-formed response whose status is '0000'.
Accepts(c) ==
  /\ WalletDone(c)
  /\ \E r \in walletCalls[c].reply : r.resolved /\ r.data = Accepted

\* C22: a call of any operation whose well-formed response carries '0000'
\* returns the mapped response and throws nothing, hands the audit service
\* exactly one row, of status Success, hands the retry service nothing, and
\* has exactly one audit record once that write has been saved.
C22_SuccessAuditedOnceNeverRetried ==
  \A c \in WalletCallIds :
    Accepts(c) =>
      /\ walletCalls[c].thrown = {}
      /\ \E d \in Accepted :
           walletCalls[c].returned = {[balance |-> d.balance, status |-> "0000", raw |-> d]}
      /\ \E a \in AuditRowsOf(c) : AuditRowsOf(c) = {a} /\ a.status = SUCCESS
      /\ \A w \in WritesOf(c) : w.kind = "audit"
      /\ JobsOf(c) = {}
      /\ Cardinality(AuditsOf(c)) <= 1
      /\ \A a \in AuditsOf(c) : a.status = SUCCESS
      /\ Quiet(c) /\ WritesSucceeded(c) => Cardinality(AuditsOf(c)) = 1

\* An accepted settleBet has returned and its one audit record is saved, next
\* to the audit record and the retry job of an earlier call.
C22_Witness ==
  \E c \in WalletCallIds :
    /\ Accepts(c) /\ walletCalls[c].op = SETTLE_BET
    /\ Quiet(c) /\ WritesSucceeded(c)
    /\ Cardinality(AuditsOf(c)) = 1
    /\ Cardinality(walletAudits) = 2 /\ Cardinality(retryJobs) = 1

\* The sum of field f over a batch, from its last transaction to its first.
BatchSum(batch, f) ==
  LET upTo[n \in 0..Len(batch)] == IF n = 0 THEN 0 ELSE upTo[n - 1] + batch[n][f]
  IN upTo[Len(batch)]

\* The retry jobs of refundBet calls: queued behind an audit write, being
\* written, and saved.
RefundRetryJobs ==
  UNION {w.then : w \in {w \in writes : w.kind = "audit"}}
    \cup {w.params : w \in {w \in writes : w.kind = "retry"}}
    \cup retryJobs

\* C26: a refundBet call that posts sends one cancelBet message whose txns
\* has one entry per refund transaction, in order, with that transaction's
\* platformTxId and refundPlatformTxId; its audit records and retry jobs
\* carry the sums of betAmount and winAmount over the batch; a retry job takes
\* platformTxId and roundId from the first transaction and holds the posted
\* message and the whole batch in its request snapshot.
C26_RefundBatchIsSentWholeAndSummed ==
  /\ \A c \in WalletCallIds :
       LET call == walletCalls[c]
           batch == call.params.refundTransactions
       IN (call.op = REFUND_BET /\ call.messageObj # {}) =>
            /\ Cardinality(call.messageObj) = 1
            /\ \A m \in call.messageObj :
                 /\ m.action = "cancelBet"
                 /\ Len(m.txns) = Len(batch)
                 /\ \A i \in 1..Len(batch) :
                      /\ m.txns[i].platformTxId = batch[i].platformTxId
                      /\ m.txns[i].refundPlatformTxId = batch[i].refundPlatformTxId
                      /\ m.txns[i].betAmount = batch[i].betAmount
                      /\ m.txns[i].winAmount = batch[i].winAmount
            /\ \A w \in writes :
                 (w.call = c /\ w.kind = "audit") =>
                   /\ w.params.betAmount = BatchSum(batch, "betAmount")
                   /\ w.params.winAmount = BatchSum(batch, "winAmount")
            /\ \A a \in walletAudits :
                 (a.requestId = c /\ a.apiAction = REFUND_BET) =>
                   /\ a.betAmount = BatchSum(batch, "betAmount")
                   /\ a.winAmount = BatchSum(batch, "winAmount")
  /\ \A j \in RefundRetryJobs :
       j.apiAction = REFUND_BET =>
         LET batch == j.requestPayload.refundTransactions
         IN /\ batch # <<>>
            /\ j.platformTxId = batch[1].platformTxId
            /\ j.roundId = batch[1].roundId
            /\ j.betAmount = BatchSum(batch, "betAmount")
            /\ j.winAmount = BatchSum(batch, "winAmount")
            /\ \E c \in WalletCallIds :
                 /\ walletCalls[c].op = REFUND_BET
                 /\ walletCalls[c].params.refundTransactions = batch
                 /\ walletCalls[c].messageObj = {j.requestPayload.messageObj}

\* A refund of the batch T1, T2 (bets of 5 and 6, wins of 0 and 1) has
\* failed; its audit record with the sums 11 and 1 is saved, and so is its
\* retry job, which names T1 and round R1 and carries both transactions.
C26_Witness ==
  \E a \in walletAudits, j \in retryJobs :
    /\ a.apiAction = REFUND_BET /\ a.betAmount = 11 /\ a.winAmount = 1
    /\ j.apiAction = REFUND_BET /\ j.betAmount = 11 /\ j.winAmount = 1
    /\ j.platformTxId = "T1" /\ j.roundId = "R1"
    /\ Len(j.requestPayload.refundTransactions) = 2
    /\ Len(j.requestPayload.messageObj.txns) = 2
    /\ j.requestPayload.messageObj.txns[2].refundPlatformTxId = "F2"

\* The failure types by the error a post was rejected with.
TransportFailureType(err) ==
  CASE err.response -> HTTP_ERROR
    [] ~err.response /\ err.code \in {"ECONNREFUSED", "ENOTFOUND"} -> NETWORK_ERROR
    [] ~err.response /\ err.code \notin {"ECONNREFUSED", "ENOTFOUND"}
         /\ (err.code = "ETIMEDOUT" \/ err.name = "TimeoutError") -> TIMEOUT_ERROR
    [] OTHER -> UNKNOWN_ERROR

\* C27: a call of any of the four operations whose post was rejected hands
\* the audit service exactly one record, a failure whose failureType is
\* HttpError if the error carries a response (whose status and body the
\* record then holds), else NetworkError for ECONNREFUSED and ENOTFOUND, else
\* TimeoutError for ETIMEDOUT and TimeoutError, else UnknownError; the record
\* saved, if any, is that one.
C27_TransportFailuresAreClassified ==
  \A c \in WalletCallIds :
    \A reply \in walletCalls[c].reply :
      (walletCalls[c].pc = "done" /\ ~reply.resolved) =>
        LET err == reply.error
            handed == {w \in writes : w.call = c /\ w.kind = "audit"}
        IN /\ Cardinality(handed) = 1
           /\ \A w \in handed :
                /\ w.params.status = FAILURE
                /\ w.params.failureType = TransportFailureType(err)
                /\ w.params.errorMessage = err.message
                /\ IF err.response
                   THEN w.params.httpStatus = err.status /\ w.params.responseData = err.data
                   ELSE w.params.httpStatus = NoStatus /\ w.params.responseData = NULL
           /\ \A a \in walletAudits :
                a.requestId = c => \E w \in handed : a = SavedAudit(w)

\* A post was answered with status 500: the audit record of the call is
\* saved as an HttpError with the status and the body of the response.
C27_Witness ==
  \E c \in WalletCallIds, a \in walletAudits :
    /\ walletCalls[c].pc = "done"
    /\ \E reply \in walletCalls[c].reply :
         ~reply.resolved /\ reply.error.response /\ reply.error.code = "ERR_BAD_RESPONSE"
    /\ a.requestId = c /\ a.failureType = HTTP_ERROR
    /\ a.httpStatus = 500 /\ a.responseData = "Internal Server Error"

\* C28: whatever the gateway and the ledger do, an audit record that has been
\* saved stays in the log as it is: the log only grows.
C28_AuditLogOnlyGrows ==
  [][walletAudits \subseteq walletAudits']_vars

\* The log holds the record of the earlier call and the record of a call made
\* since, while the ledger has purged bets.
C28_Witness ==
  /\ SavedAudit(EarlierAuditWrite) \in walletAudits
  /\ \E a \in walletAudits : a.requestId \in WalletCallIds
  /\ \E c \in CallIds : calls[c].op = "deletePlacedBets" /\ calls[c].count > 0

\* C32: a placeBet that names an unknown agent has posted nothing, has thrown
\* NotFound and has handed the audit service one record, a failure without a
\* request payload, which is the only record the log can hold for it, and no
\* retry job; a getBalance, settleBet or refundBet that names an unknown agent
\* has started no write at all.
C32_OnlyPlaceBetAuditsAnUnknownAgent ==
  \A c \in WalletCallIds :
    (walletCalls[c].pc # "idle" /\ walletCalls[c].params.agentId \notin DOMAIN Agents) =>
      IF walletCalls[c].op = PLACE_BET
      THEN /\ walletCalls[c].messageObj = {}
           /\ \A e \in walletCalls[c].thrown : e.name = "NotFoundException"
           /\ walletCalls[c].thrown # {}
           /\ Cardinality(WritesOf(c)) = 1
           /\ \A w \in WritesOf(c) :
                /\ w.kind = "audit" /\ w.then = {}
                /\ w.params.status = FAILURE
                /\ w.params.requestPayload = {}
                /\ w.state = "written" <=> AuditsOf(c) = {SavedAudit(w)}
                /\ w.state # "written" => AuditsOf(c) = {}
           /\ JobsOf(c) = {}
      ELSE WritesOf(c) = {} /\ AuditsOf(c) = {} /\ JobsOf(c) = {}

\* A placeBet for the unknown agent A9 has thrown NotFound and its failure
\* record, which holds no request payload, is in the log.
C32_Witness ==
  \E c \in WalletCallIds, a \in walletAudits :
    /\ walletCalls[c].op = PLACE_BET /\ walletCalls[c].params.agentId = "A9"
    /\ WalletDone(c) /\ walletCalls[c].messageObj = {}
    /\ a.requestId = c /\ a.apiAction = PLACE_BET /\ a.status = FAILURE
    /\ a.requestPayload = {}

\* The audit writes of call c, and whether one was started and all of them
\* failed: the service threw instead of returning a promise, or its promise
\* was rejected.
AuditWritesOf(c) == {w \in WritesOf(c) : w.kind = "audit"}

AuditWritesFailed(c) ==
  /\ AuditWritesOf(c) # {}
  /\ \A w \in AuditWritesOf(c) : w.state \in {"thrown", "rejected"}

\* C33: a settleBet or refundBet that has failed and whose audit writes have
\* failed has started no retry-job write, and has thrown the error the
\* wallet's reply stands for.
C33_FailedAuditMeansNoRetryJob ==
  \A c \in WalletCallIds :
    (/\ walletCalls[c].op \in {SETTLE_BET, REFUND_BET}
     /\ WalletDone(c) /\ AuditWritesFailed(c)) =>
      /\ \A w \in WritesOf(c) : w.kind # "retry"
      /\ JobsOf(c) = {}
      /\ \E reply \in walletCalls[c].reply :
           walletCalls[c].thrown = ErrorOf(walletCalls[c].op, reply)

\* A settleBet whose post was refused has handed its failure record to an
\* audit service that threw: no retry job was started, and the call has
\* thrown the audit service's error, not the refused connection.
C33_Witness ==
  \E c \in WalletCallIds :
    /\ walletCalls[c].op = SETTLE_BET /\ WalletDone(c)
    /\ walletCalls[c].reply = {[resolved |-> FALSE, error |-> ConnectionRefused]}
    /\ \E w \in AuditWritesOf(c) : w.state = "thrown"
    /\ \A w \in WritesOf(c) : w.kind # "retry"
    /\ walletCalls[c].thrown = {WriteError}

\* Call c is a refundBet call with an empty batch that has posted its request.
EmptyRefundPosted(c) ==
  /\ walletCalls[c].op = REFUND_BET
  /\ walletCalls[c].params.refundTransactions = <<>>
  /\ walletCalls[c].messageObj # {}

\* C34: a refundBet call with an empty batch asks the adapter for nothing
\* and keeps the minimal game payload with an empty game code, posts one
\* cancelBet message whose txns is empty, and never chains or starts a retry
\* write; when its request fails it has started an audit write, exactly one
\* if the post itself failed, and once its writes have been saved it has an
\* audit record of status Failure and no retry job.
C34_EmptyRefundIsAuditedNotRetried ==
  \A c \in WalletCallIds :
    EmptyRefundPosted(c) =>
      /\ walletCalls[c].gamePayloads = {[gameCode |-> ""]}
      /\ walletCalls[c].messageObj = {[action |-> "cancelBet", txns |-> <<>>]}
      /\ \A w \in WritesOf(c) : w.kind = "audit" /\ w.then = {}
      /\ JobsOf(c) = {}
      /\ (WalletDone(c) /\ walletCalls[c].thrown # {}) =>
           /\ AuditWritesOf(c) # {}
           /\ ~ApplicationFailure(c) => Cardinality(AuditWritesOf(c)) = 1
           /\ (Quiet(c) /\ WritesSucceeded(c)) =>
                /\ AuditsOf(c) # {}
                /\ \A a \in AuditsOf(c) : a.status = FAILURE

C34_Witness ==
  \E c \in WalletCallIds :
    /\ EmptyRefundPosted(c) /\ walletApiAdapter.present
    /\ NetworkFailure(c) /\ Quiet(c) /\ WritesSucceeded(c)
    /\ Cardinality(AuditsOf(c)) = 1
    /\ JobsOf(c) = {}

\* C23: every retry job of a settleBet call carries the game payloads the
\* request of that call was built from, and the message that was posted.
C23_RetryJobCarriesThePayloadsUsed ==
  \A c \in WalletCallIds :
    walletCalls[c].op = SETTLE_BET =>
      \A j \in JobsOf(c) :
        /\ j.gamePayloads \in walletCalls[c].gamePayloads
        /\ j.requestPayload.messageObj \in walletCalls[c].messageObj

\* C8: a write is handed to the retry service only once the failure audit
\* record of the same call has been saved, and it carries the id of that
\* record; so does every retry job.
C8_RetryJobFollowsItsAuditRecord ==
  /\ \A w \in writes :
       w.kind = "retry" =>
         \E a \in walletAudits :
           /\ a.requestId = w.call
           /\ a.status = FAILURE
           /\ a.apiAction = w.params.apiAction
           /\ a.id = w.params.walletAuditId
  /\ \A j \in retryJobs :
       \E a \in walletAudits :
         a.status = FAILURE /\ a.apiAction = j.apiAction /\ a.id = j.walletAuditId

C8_Witness ==
  \E c \in WalletCallIds :
    /\ walletCalls[c].op = REFUND_BET
    /\ \E w \in WritesOf(c) : w.kind = "retry" /\ w.state = "started"

=============================================================================
